---------------------------- MODULE Spec2Model ----------------------------
(***************************************************************************)
(* A model of gitops-kustomzchk: the path template engine                  *)
(* (pkg/pathbuilder) and the compliance enforcement engine (pkg/policy).   *)
(*                                                                         *)
(* Strings are sequences of one-character strings, so that the regular     *)
(* expression, the literal substring replacement and the joins of the      *)
(* source are computed character by character.                             *)
(***************************************************************************)
EXTENDS Integers, Sequences, FiniteSets, TLC

(***************************************************************************)
(* Bounds of the model.                                                    *)
(***************************************************************************)
\* pieces a template is put together from
MaxPieces == 3
\* values bound to one variable
MaxVals == 2

VARIABLES
    pb,          \* the PathBuilder: Template and Variables
    paths,       \* what the last GenerateAllPaths returned
    disk,        \* the policies directory: compliance-config.yaml and files
    e,           \* the PolicyEvaluator's data
    pc,          \* where the evaluator is: new, loaded, loadFailed, ...
    loadErr,     \* what LoadAndValidate returned
    ghComments,  \* the comments handed to the evaluator
    now,         \* what time.Now() returned to DetermineEnforcementLevel
    levels,      \* the levels DetermineEnforcementLevel returned
    build,       \* the BuildManifestResult handed to the evaluator
    feed,        \* what conftest did for each overlay and policy
    evaluation,  \* the PolicyEvaluation returned
    evalErr,     \* the error GeneratePolicyEvalResultForManifests returned
    decl,        \* the template and the declaration given to NewPathBuilder
    opts,        \* the runner's Options
    tree,        \* the checkout: what kustomize finds at each build path
    proc         \* what the runner's Process returned

vars == <<pb, paths, disk, e, pc, loadErr, ghComments, now, levels,
          build, feed, evaluation, evalErr, decl, opts, tree, proc>>

pathVars == <<pb, paths, decl>>
policyVars == <<disk, e, pc, loadErr, ghComments, now, levels>>
evalVars == <<build, feed, evaluation, evalErr>>
runVars == <<opts, tree, proc>>

(***************************************************************************)
(* Characters and strings.                                                 *)
(***************************************************************************)
Letters ==
    {"A", "B", "C", "D", "E", "F", "G", "H", "I", "J", "K", "L", "M",
     "N", "O", "P", "Q", "R", "S", "T", "U", "V", "W", "X", "Y", "Z",
     "a", "b", "c", "d", "e", "f", "g", "h", "i", "j", "k", "l", "m",
     "n", "o", "p", "q", "r", "s", "t", "u", "v", "w", "x", "y", "z"}
Digits == {"0", "1", "2", "3", "4", "5", "6", "7", "8", "9"}

\* [A-Za-z_]
IsNameStart(c) == c \in Letters \cup {"_"}
\* [A-Za-z0-9_]
IsNameChar(c) == c \in Letters \cup Digits \cup {"_"}

RECURSIVE Flatten(_)
Flatten(ss) == IF ss = <<>> THEN <<>> ELSE Head(ss) \o Flatten(Tail(ss))

\* strings.Join(parts, sep)
RECURSIVE Join(_, _)
Join(parts, sep) ==
    IF parts = <<>> THEN <<>>
    ELSE IF Len(parts) = 1 THEN parts[1]
    ELSE parts[1] \o sep \o Join(Tail(parts), sep)

\* whether old occurs in s at position i
OccursAt(s, old, i) ==
    /\ i + Len(old) - 1 <= Len(s)
    /\ \A k \in 1..Len(old) : s[i + k - 1] = old[k]

\* strings.ReplaceAll(s, old, new) for a non-empty old: the non-overlapping
\* occurrences of old, found left to right, are replaced by new
RECURSIVE ReplaceFrom(_, _, _, _)
ReplaceFrom(s, old, new, i) ==
    IF i > Len(s) THEN <<>>
    ELSE IF OccursAt(s, old, i)
         THEN new \o ReplaceFrom(s, old, new, i + Len(old))
         ELSE <<s[i]>> \o ReplaceFrom(s, old, new, i + 1)

ReplaceAll(s, old, new) == ReplaceFrom(s, old, new, 1)

(***************************************************************************)
(* variablePattern: an opening bracket, a name (a letter or underscore,    *)
(* then letters, digits and underscores), a closing bracket.               *)
(***************************************************************************)
\* the last position of the longest run of name characters starting at i
RECURSIVE NameRunEnd(_, _)
NameRunEnd(s, i) ==
    IF i + 1 <= Len(s) /\ IsNameChar(s[i + 1]) THEN NameRunEnd(s, i + 1) ELSE i

\* the position of the closing bracket of a match starting at i, 0 if none
MatchEnd(s, i) ==
    IF /\ i + 2 <= Len(s)
       /\ s[i] = "["
       /\ IsNameStart(s[i + 1])
       /\ NameRunEnd(s, i + 1) + 1 <= Len(s)
       /\ s[NameRunEnd(s, i + 1) + 1] = "]"
    THEN NameRunEnd(s, i + 1) + 1
    ELSE 0

\* variablePattern.FindAllStringSubmatch(s, -1): the captured names of the
\* leftmost non-overlapping matches, in order
RECURSIVE FindAllNames(_, _)
FindAllNames(s, i) ==
    IF i > Len(s) THEN <<>>
    ELSE IF MatchEnd(s, i) > 0
         THEN <<SubSeq(s, i + 1, MatchEnd(s, i) - 1)>>
              \o FindAllNames(s, MatchEnd(s, i) + 1)
         ELSE FindAllNames(s, i + 1)

\* variablePattern.MatchString(s)
MatchString(s) == \E i \in 1..Len(s) : MatchEnd(s, i) > 0

\* the distinct elements of a sequence, by first occurrence
RECURSIVE Dedup(_, _)
Dedup(names, seen) ==
    IF names = <<>> THEN <<>>
    ELSE IF Head(names) \in seen THEN Dedup(Tail(names), seen)
    ELSE <<Head(names)>> \o Dedup(Tail(names), seen \cup {Head(names)})

ParseTemplate(template) == Dedup(FindAllNames(template, 1), {})

(***************************************************************************)
(* PathBuilder                                                             *)
(***************************************************************************)
Range(f) == {f[x] : x \in DOMAIN f}

\* a variant of Validate that wants a value for every binding
ValidateEveryBinding(p) ==
    IF p.Template = <<>> THEN "template cannot be empty"
    ELSE IF \E n \in DOMAIN p.Variables : Len(p.Variables[n]) = 0
    THEN "has empty values"
    ELSE IF \E i \in 1..Len(ParseTemplate(p.Template)) :
                ParseTemplate(p.Template)[i] \notin DOMAIN p.Variables
    THEN "has no values defined"
    ELSE "nil"

\* the orders in which a Go map with these keys may be ranged over
Orders(keys) ==
    {o \in [1..Cardinality(keys) -> keys] : Range(o) = keys}

Validate(p) ==
    LET templateVars == ParseTemplate(p.Template)
        missing == {i \in 1..Len(templateVars) :
                       templateVars[i] \notin DOMAIN p.Variables}
        empty == {i \in 1..Len(templateVars) :
                       /\ templateVars[i] \in DOMAIN p.Variables
                       /\ Len(p.Variables[templateVars[i]]) = 0}
        bad == missing \cup empty
        first == CHOOSE i \in bad : \A j \in bad : i <= j
    IN  IF p.Template = <<>> THEN "template cannot be empty"
        ELSE IF bad = {} THEN "nil"
        ELSE IF first \in missing THEN "has no values defined"
        ELSE "has empty values"

\* the template after the replacements of the variables taken in this order
RECURSIVE Substitute(_, _, _)
Substitute(result, values, order) ==
    IF order = <<>> THEN result
    ELSE Substitute(
             ReplaceAll(result, <<"[">> \o Head(order) \o <<"]">>,
                        values[Head(order)]),
             values, Tail(order))

\* variablePattern.FindAllString(s, -1): the tokens themselves
FindAllString(s) ==
    [i \in 1..Len(FindAllNames(s, 1)) |->
        <<"[">> \o FindAllNames(s, 1)[i] \o <<"]">>]

\* a variant of InterpolatePath that returns what the replacements left
InterpolatePathUnchecked(template, values, order) ==
    [err |-> "nil", path |-> Substitute(template, values, order),
     unresolved |-> <<>>]

\* InterpolatePath with the map ranged over in the given order
InterpolatePath(template, values, order) ==
    LET result == Substitute(template, values, order)
    IN  IF MatchString(result)
        THEN [err |-> "unresolved variables in path", path |-> <<>>,
              unresolved |-> FindAllString(result)]
        ELSE [err |-> "nil", path |-> result, unresolved |-> <<>>]

\* a loop that stops one value short
RECURSIVE generateCombinationsShort(_, _, _, _)
generateCombinationsShort(variables, varNames, index, current) ==
    IF index = Len(varNames) + 1 THEN <<current>>
    ELSE LET varName == varNames[index]
             values == variables[varName]
             for[k \in 0..Len(values)] ==
                 IF k = 0 THEN <<>>
                 ELSE for[k - 1] \o
                      generateCombinationsShort(variables, varNames, index + 1,
                          [n \in DOMAIN current \cup {varName} |->
                              IF n = varName THEN values[k] ELSE current[n]])
         IN  IF index = Len(varNames) /\ Len(values) > 1
             THEN for[Len(values) - 1] ELSE for[Len(values)]

\* generateCombinations(varNames, index, current, results): what it appends
RECURSIVE generateCombinations(_, _, _, _)
generateCombinations(variables, varNames, index, current) ==
    IF index = Len(varNames) + 1 THEN <<current>>
    ELSE LET varName == varNames[index]
             values == variables[varName]
             for[k \in 0..Len(values)] ==
                 IF k = 0 THEN <<>>
                 ELSE for[k - 1] \o
                      generateCombinations(variables, varNames, index + 1,
                          [n \in DOMAIN current \cup {varName} |->
                              IF n = varName THEN values[k] ELSE current[n]])
         IN  for[Len(values)]

\* the product taken with the last variable outermost
cartesianProductReversed(variables, varNames) ==
    IF Len(varNames) = 0 THEN << <<>> >>
    ELSE generateCombinations(variables,
             [i \in 1..Len(varNames) |-> varNames[Len(varNames) + 1 - i]],
             1, <<>>)

cartesianProduct(variables, varNames) ==
    IF Len(varNames) = 0 THEN << <<>> >>
    ELSE generateCombinations(variables, varNames, 1, <<>>)

\* a variant of generateOverlayKey that leaves the first variable out
generateOverlayKeyTail(varNames, values) ==
    LET idx == {i \in 2..Len(varNames) : varNames[i] \in DOMAIN values}
        pick[k \in 0..Len(varNames)] ==
            IF k = 0 THEN <<>>
            ELSE IF k \in idx THEN Append(pick[k - 1], values[varNames[k]])
            ELSE pick[k - 1]
    IN  Join(pick[Len(varNames)], <<"/">>)

generateOverlayKey(varNames, values) ==
    LET idx == {i \in 1..Len(varNames) : varNames[i] \in DOMAIN values}
        pick[k \in 0..Len(varNames)] ==
            IF k = 0 THEN <<>>
            ELSE IF k \in idx THEN Append(pick[k - 1], values[varNames[k]])
            ELSE pick[k - 1]
    IN  Join(pick[Len(varNames)], <<"/">>)

\* the results of the loop of GenerateAllPaths over combinations[1..k]: a
\* set, since each InterpolatePath ranges over a map
RECURSIVE PathLoop(_, _, _, _)
PathLoop(template, templateVars, combinations, k) ==
    IF k = 0 THEN {[err |-> "nil", combos |-> <<>>, unresolved |-> <<>>]}
    ELSE LET combo == combinations[k]
             before == PathLoop(template, templateVars, combinations, k - 1)
             interp == {InterpolatePath(template, combo, o) :
                          o \in Orders(DOMAIN combo)}
         IN  {IF b.err # "nil" THEN b
              ELSE IF r.err # "nil"
              THEN [err |-> r.err, combos |-> <<>>, unresolved |-> r.unresolved]
              ELSE [err |-> "nil", unresolved |-> <<>>,
                    combos |-> Append(b.combos,
                        [Path |-> r.path, Values |-> combo,
                         OverlayKey |-> generateOverlayKey(templateVars, combo)])]
              : b \in before, r \in interp}

\* a variant of GenerateAllPaths without the branch for no variables
GenerateAllPathsResultsNoShortcut(p) ==
    LET templateVars == ParseTemplate(p.Template)
        combinations == cartesianProduct(p.Variables, templateVars)
    IN  IF Validate(p) # "nil"
        THEN {[err |-> Validate(p), combos |-> <<>>, unresolved |-> <<>>]}
        ELSE PathLoop(p.Template, templateVars, combinations, Len(combinations))

\* every result GenerateAllPaths may return for this PathBuilder
GenerateAllPathsResults(p) ==
    LET templateVars == ParseTemplate(p.Template)
        combinations == cartesianProduct(p.Variables, templateVars)
    IN  IF Validate(p) # "nil"
        THEN {[err |-> Validate(p), combos |-> <<>>, unresolved |-> <<>>]}
        ELSE IF Len(templateVars) = 0
        THEN {[err |-> "nil", unresolved |-> <<>>,
               combos |-> <<[Path |-> p.Template, Values |-> <<>>,
                             OverlayKey |-> p.Template]>>]}
        ELSE PathLoop(p.Template, templateVars, combinations, Len(combinations))

(***************************************************************************)
(* Inputs of the path template engine.                                     *)
(***************************************************************************)
VarNames == {<<"A">>, <<"B">>}
Pieces == {<<"[", "A", "]">>, <<"[", "B", "]">>, <<"/">>, <<"x">>}
Values == {<<"a">>, <<"b">>, <<"[", "B", "]">>}

Templates == {Flatten(ps) : ps \in UNION {[1..n -> Pieces] : n \in 0..MaxPieces}}
ValueLists == UNION {[1..n -> Values] : n \in 0..MaxVals}
Bindings == UNION {[S -> ValueLists] : S \in SUBSET VarNames}

NoPaths ==
    [called |-> FALSE, err |-> "nil", combos |-> <<>>, unresolved |-> <<>>]

\* a PathBuilder that was not made by NewPathBuilder
NoDeclaration ==
    [template |-> <<>>, valuesStr |-> <<>>, state |-> "given", err |-> "nil"]

PathIdle ==
    /\ pb = [Template |-> <<>>, Variables |-> <<>>]
    /\ paths = NoPaths
    /\ decl = NoDeclaration

GenerateAllPaths ==
    /\ ~paths.called
    /\ decl.state \in {"given", "made"}
    /\ \E r \in GenerateAllPathsResults(pb) :
          paths' = [called |-> TRUE, err |-> r.err, combos |-> r.combos,
                    unresolved |-> r.unresolved]
    /\ UNCHANGED <<pb, decl>>
    /\ UNCHANGED <<policyVars, evalVars, runVars>>


(***************************************************************************)
(* The declaration of the values.                                          *)
(***************************************************************************)
\* the longest declaration the model draws
MaxDecl == 5

\* strings.Split(s, sep) for a separator of one character
RECURSIVE Split(_, _)
Split(s, sep) ==
    IF \E i \in 1..Len(s) : s[i] = sep
    THEN LET k == CHOOSE i \in 1..Len(s) :
                      s[i] = sep /\ \A j \in 1..(i - 1) : s[j] # sep
         IN  <<SubSeq(s, 1, k - 1)>> \o Split(SubSeq(s, k + 1, Len(s)), sep)
    ELSE <<s>>

\* strings.SplitN(s, sep, 2) for a separator of one character
SplitN2(s, sep) ==
    IF \E i \in 1..Len(s) : s[i] = sep
    THEN LET k == CHOOSE i \in 1..Len(s) :
                      s[i] = sep /\ \A j \in 1..(i - 1) : s[j] # sep
         IN  <<SubSeq(s, 1, k - 1), SubSeq(s, k + 1, Len(s))>>
    ELSE <<s>>

IsSpace(c) == c \in {" ", "\t", "\n", "\r"}

\* strings.TrimSpace(s)
RECURSIVE TrimSpace(_)
TrimSpace(s) ==
    IF s = <<>> THEN s
    ELSE IF IsSpace(s[1]) THEN TrimSpace(Tail(s))
    ELSE IF IsSpace(s[Len(s)]) THEN TrimSpace(SubSeq(s, 1, Len(s) - 1))
    ELSE s

\* a variant of the loop of ParseValues that stores what it can of a token
RECURSIVE ParseTokensLenient(_, _)
ParseTokensLenient(tokens, result) ==
    IF tokens = <<>> THEN [err |-> "nil", result |-> result]
    ELSE LET token == TrimSpace(Head(tokens))
             parts == SplitN2(token, "=")
             key == TrimSpace(parts[1])
             valuesStr == IF Len(parts) = 2 THEN TrimSpace(parts[2]) ELSE <<>>
             split == Split(valuesStr, ",")
             values == [i \in 1..Len(split) |-> TrimSpace(split[i])]
         IN  IF token = <<>> THEN ParseTokensLenient(Tail(tokens), result)
             ELSE ParseTokensLenient(Tail(tokens),
                      [k \in DOMAIN result \cup {key} |->
                          IF k = key THEN values ELSE result[k]])

\* the loop of ParseValues over the tokens
RECURSIVE ParseTokens(_, _)
ParseTokens(tokens, result) ==
    IF tokens = <<>> THEN [err |-> "nil", result |-> result]
    ELSE LET token == TrimSpace(Head(tokens))
             parts == SplitN2(token, "=")
             key == TrimSpace(parts[1])
             valuesStr == TrimSpace(parts[2])
             split == Split(valuesStr, ",")
             values == [i \in 1..Len(split) |-> TrimSpace(split[i])]
         IN  IF token = <<>> THEN ParseTokens(Tail(tokens), result)
             ELSE IF Len(parts) # 2
             THEN [err |-> "invalid token format", result |-> <<>>]
             ELSE IF key = <<>>
             THEN [err |-> "empty key in token", result |-> <<>>]
             ELSE IF valuesStr = <<>>
             THEN [err |-> "empty value for key", result |-> <<>>]
             ELSE ParseTokens(Tail(tokens),
                      [k \in DOMAIN result \cup {key} |->
                          IF k = key THEN values ELSE result[k]])

ParseValues(valuesStr) ==
    IF valuesStr = <<>> THEN [err |-> "nil", result |-> <<>>]
    ELSE ParseTokens(Split(valuesStr, ";"), <<>>)

\* the characters of the declarations the model draws
DeclChars == {"A", "a", "=", ",", ";", " "}
Declarations == UNION {[1..n -> DeclChars] : n \in 0..MaxDecl}

\* services/[SERVICE]/clusters/[CLUSTER]/[ENV]
ExampleTemplate ==
    <<"s", "e", "r", "v", "i", "c", "e", "s", "/", "[", "S", "E", "R",
      "V", "I", "C", "E", "]", "/", "c", "l", "u", "s", "t", "e", "r",
      "s", "/", "[", "C", "L", "U", "S", "T", "E", "R", "]", "/", "[",
      "E", "N", "V", "]">>

\* SERVICE=my-app;CLUSTER=alpha,beta;ENV=stg,prod
ExampleValues ==
    <<"S", "E", "R", "V", "I", "C", "E", "=", "m", "y", "-", "a", "p",
      "p", ";", "C", "L", "U", "S", "T", "E", "R", "=", "a", "l", "p",
      "h", "a", ",", "b", "e", "t", "a", ";", "E", "N", "V", "=", "s",
      "t", "g", ",", "p", "r", "o", "d">>

\* NewPathBuilder(template, valuesStr)
NewPathBuilder ==
    /\ decl.state = "pending"
    /\ LET variables == ParseValues(decl.valuesStr)
       IN  IF variables.err # "nil"
           THEN /\ decl' = [decl EXCEPT !.state = "failed", !.err = variables.err]
                /\ UNCHANGED pb
           ELSE /\ decl' = [decl EXCEPT !.state = "made"]
                /\ pb' = [Template |-> decl.template,
                          Variables |-> variables.result]
    /\ UNCHANGED paths
    /\ UNCHANGED <<policyVars, evalVars, runVars>>

(***************************************************************************)
(* The compliance configuration.                                           *)
(***************************************************************************)
\* a nil *time.Time
NoTime == -1
\* the last instant of the model's clock
MaxTime == 1
\* comments handed to DetermineEnforcementLevel
MaxComments == 2

Time == 0..MaxTime
TimeOrNil == Time \cup {NoTime}

\* a.Before(b)
Before(a, b) == a < b

POLICY_LEVEL_RECOMMEND == "RECOMMEND"
POLICY_LEVEL_WARNING == "WARNING"
POLICY_LEVEL_BLOCK == "BLOCK"
POLICY_LEVEL_OVERRIDE == "OVERRIDE"
POLICY_LEVEL_NOT_IN_EFFECT == "NOT_IN_EFFECT"
POLICY_LEVEL_UNKNOWN == ""

\* the longest override comment validateComplianceConfig accepts
MaxCommentLen == 255

DotRego == <<".", "r", "e", "g", "o">>
TestRego == <<"_", "t", "e", "s", "t", ".", "r", "e", "g", "o">>

\* strings.HasSuffix(s, suffix)
HasSuffix(s, suffix) ==
    /\ Len(s) >= Len(suffix)
    /\ SubSeq(s, Len(s) - Len(suffix) + 1, Len(s)) = suffix

\* strings.TrimSuffix(s, suffix)
TrimSuffix(s, suffix) ==
    IF HasSuffix(s, suffix) THEN SubSeq(s, 1, Len(s) - Len(suffix)) ELSE s

NoError == [kind |-> "nil", id |-> ""]
Error(kind, id) == [kind |-> kind, id |-> id]

\* a variant of PolicyViolation that wants each threshold strictly later
PolicyViolationStrict(policy) ==
    LET enf == policy.Enforcement
    IN  IF policy.Name = "" THEN "name is required"
        ELSE IF policy.Type = "" THEN "type is required"
        ELSE IF policy.Type # "opa" THEN "unsupported type"
        ELSE IF policy.FilePath = <<>> THEN "filePath is required"
        ELSE IF /\ enf.InEffectAfter # NoTime /\ enf.IsWarningAfter # NoTime
                /\ ~Before(enf.InEffectAfter, enf.IsWarningAfter)
        THEN "isWarningAfter cannot be before inEffectAfter"
        ELSE IF /\ enf.IsWarningAfter # NoTime /\ enf.IsBlockingAfter # NoTime
                /\ ~Before(enf.IsWarningAfter, enf.IsBlockingAfter)
        THEN "isBlockingAfter cannot be before isWarningAfter"
        ELSE IF /\ enf.Override.Comment # <<>>
                /\ Len(enf.Override.Comment) > MaxCommentLen
        THEN "override comment is too long"
        ELSE "nil"

\* the first check of validateComplianceConfig this policy fails
PolicyViolation(policy) ==
    LET enf == policy.Enforcement
    IN  IF policy.Name = "" THEN "name is required"
        ELSE IF policy.Type = "" THEN "type is required"
        ELSE IF policy.Type # "opa" THEN "unsupported type"
        ELSE IF policy.FilePath = <<>> THEN "filePath is required"
        ELSE IF /\ enf.InEffectAfter # NoTime /\ enf.IsWarningAfter # NoTime
                /\ Before(enf.IsWarningAfter, enf.InEffectAfter)
        THEN "isWarningAfter cannot be before inEffectAfter"
        ELSE IF /\ enf.IsWarningAfter # NoTime /\ enf.IsBlockingAfter # NoTime
                /\ Before(enf.IsBlockingAfter, enf.IsWarningAfter)
        THEN "isBlockingAfter cannot be before isWarningAfter"
        ELSE IF /\ enf.Override.Comment # <<>>
                /\ Len(enf.Override.Comment) > MaxCommentLen
        THEN "override comment is too long"
        ELSE "nil"

\* a variant of validateComplianceConfig that accepts every configuration
validateComplianceConfigAccepting(policies) == {NoError}

\* what validateComplianceConfig may return: the loop ranges over a map, so
\* any policy that fails a check may be the one it meets first
validateComplianceConfig(policies) ==
    LET bad == {id \in DOMAIN policies : PolicyViolation(policies[id]) # "nil"}
    IN  IF DOMAIN policies = {} THEN {Error("no policies defined", "")}
        ELSE IF bad = {} THEN {NoError}
        ELSE {Error(PolicyViolation(policies[id]), id) : id \in bad}

\* a variant of the loop in which a later policy takes over a command
RECURSIVE LoadLoopOverwrite(_, _, _, _)
LoadLoopOverwrite(st, policies, files, order) ==
    IF order = <<>> THEN st
    ELSE LET id == Head(order)
             policy == policies[id]
             policyPath == policy.FilePath
             testPath == TrimSuffix(policyPath, DotRego) \o TestRego
             comment == policy.Enforcement.Override.Comment
             st1 == [st EXCEPT !.fullPathToPolicy = (id :> policyPath) @@ @]
         IN  IF policyPath \notin files
             THEN [st EXCEPT !.err = Error("file not found", id)]
             ELSE IF ~HasSuffix(policyPath, DotRego)
             THEN [st EXCEPT !.err = Error("unsupported file extension", id)]
             ELSE IF testPath \notin files
             THEN [st EXCEPT !.err = Error("test file not found", id)]
             ELSE IF comment = <<>>
             THEN LoadLoopOverwrite(st1, policies, files, Tail(order))
             ELSE LoadLoopOverwrite(
                      [st1 EXCEPT !.overrideCmdToPolicyId = (comment :> id) @@ @],
                      policies, files, Tail(order))

\* the loop of LoadAndValidate over the policies in this order
RECURSIVE LoadLoop(_, _, _, _)
LoadLoop(st, policies, files, order) ==
    IF order = <<>> THEN st
    ELSE LET id == Head(order)
             policy == policies[id]
             policyPath == policy.FilePath
             testPath == TrimSuffix(policyPath, DotRego) \o TestRego
             comment == policy.Enforcement.Override.Comment
             st1 == [st EXCEPT !.fullPathToPolicy = (id :> policyPath) @@ @]
         IN  IF policyPath \notin files
             THEN [st EXCEPT !.err = Error("file not found", id)]
             ELSE IF ~HasSuffix(policyPath, DotRego)
             THEN [st EXCEPT !.err = Error("unsupported file extension", id)]
             ELSE IF testPath \notin files
             THEN [st EXCEPT !.err = Error("test file not found", id)]
             ELSE IF comment = <<>>
             THEN LoadLoop(st1, policies, files, Tail(order))
             ELSE IF comment \in DOMAIN st1.overrideCmdToPolicyId
             THEN [st1 EXCEPT !.err =
                      Error("this override command already exists", id)]
             ELSE LoadLoop(
                      [st1 EXCEPT !.overrideCmdToPolicyId = (comment :> id) @@ @],
                      policies, files, Tail(order))

\* every outcome of LoadAndValidate: the evaluator's data and the error
LoadAndValidateResults(ev, d) ==
    LET loaded == [ev EXCEPT !.Policies = d.doc @@ @]
        start == [fullPathToPolicy |-> ev.fullPathToPolicy,
                  overrideCmdToPolicyId |-> ev.overrideCmdToPolicyId,
                  err |-> NoError]
        finish(st) ==
            [data |-> [loaded EXCEPT
                          !.fullPathToPolicy = st.fullPathToPolicy,
                          !.overrideCmdToPolicyId = st.overrideCmdToPolicyId],
             err |-> st.err]
    IN  IF ~d.readable
        THEN {[data |-> ev, err |-> Error("failed to read compliance config", "")]}
        ELSE {[data |-> loaded, err |-> v] :
                 v \in validateComplianceConfig(loaded.Policies) \ {NoError}}
             \cup
             (IF NoError \in validateComplianceConfig(loaded.Policies)
              THEN {finish(LoadLoop(start, loaded.Policies, d.files, o)) :
                       o \in Orders(DOMAIN loaded.Policies)}
              ELSE {})

(***************************************************************************)
(* The enforcement level of every policy.                                  *)
(***************************************************************************)
\* thresholds that count only once they are strictly in the past
ScheduleLevelStrict(enforcement, t) ==
    LET l0 == POLICY_LEVEL_UNKNOWN
        l1 == IF /\ enforcement.InEffectAfter # NoTime
                 /\ Before(t, enforcement.InEffectAfter)
              THEN POLICY_LEVEL_NOT_IN_EFFECT ELSE l0
        l2 == IF /\ enforcement.InEffectAfter # NoTime
                 /\ ~Before(t, enforcement.InEffectAfter)
              THEN POLICY_LEVEL_RECOMMEND ELSE l1
        l3 == IF /\ enforcement.IsWarningAfter # NoTime
                 /\ Before(enforcement.IsWarningAfter, t)
              THEN POLICY_LEVEL_WARNING ELSE l2
        l4 == IF /\ enforcement.IsBlockingAfter # NoTime
                 /\ Before(enforcement.IsBlockingAfter, t)
              THEN POLICY_LEVEL_BLOCK ELSE l3
    IN  l4

\* the level the schedule of one policy gives at time t
ScheduleLevel(enforcement, t) ==
    LET l0 == POLICY_LEVEL_UNKNOWN
        l1 == IF /\ enforcement.InEffectAfter # NoTime
                 /\ Before(t, enforcement.InEffectAfter)
              THEN POLICY_LEVEL_NOT_IN_EFFECT ELSE l0
        l2 == IF /\ enforcement.InEffectAfter # NoTime
                 /\ ~Before(t, enforcement.InEffectAfter)
              THEN POLICY_LEVEL_RECOMMEND ELSE l1
        l3 == IF /\ enforcement.IsWarningAfter # NoTime
                 /\ ~Before(t, enforcement.IsWarningAfter)
              THEN POLICY_LEVEL_WARNING ELSE l2
        l4 == IF /\ enforcement.IsBlockingAfter # NoTime
                 /\ ~Before(t, enforcement.IsBlockingAfter)
              THEN POLICY_LEVEL_BLOCK ELSE l3
    IN  l4

\* the policies the first loop of DetermineEnforcementLevel sets to OVERRIDE
Overridden(ev, comments) ==
    {ev.overrideCmdToPolicyId[comments[i]] :
        i \in {j \in 1..Len(comments) :
                  comments[j] \in DOMAIN ev.overrideCmdToPolicyId}}

\* the second loop without its skip of the policies already set
DetermineEnforcementLevelNoSkip(ev, comments, t) ==
    [id \in Overridden(ev, comments) \cup DOMAIN ev.Policies |->
        IF id \in DOMAIN ev.Policies
        THEN ScheduleLevel(ev.Policies[id].Enforcement, t)
        ELSE POLICY_LEVEL_OVERRIDE]

DetermineEnforcementLevel(ev, comments, t) ==
    [id \in Overridden(ev, comments) \cup DOMAIN ev.Policies |->
        IF id \in Overridden(ev, comments) THEN POLICY_LEVEL_OVERRIDE
        ELSE ScheduleLevel(ev.Policies[id].Enforcement, t)]

(***************************************************************************)
(* Evaluation of the policies and the per-overlay matrix.                  *)
(***************************************************************************)
\* evaluatePolicyWithConftest on one run of conftest: how the command
\* ended (cmdErr, exitCode) and what it wrote to stdout
evaluatePolicyWithConftest(run) ==
    IF run.cmdErr = "ExitError" /\ run.exitCode # 1
    THEN [Status |-> "error", FailMessages |-> <<>>,
          ErrorMessage |-> "conftest execution error"]
    ELSE IF run.stdout = "invalid json"
    THEN [Status |-> "error", FailMessages |-> <<>>,
          ErrorMessage |-> "failed to parse conftest JSON output"]
    ELSE IF run.stdout = "no results"
    THEN [Status |-> "error", FailMessages |-> <<>>,
          ErrorMessage |-> "no results found in conftest output"]
    ELSE IF run.stdout = "no failures"
    THEN [Status |-> "pass", FailMessages |-> <<>>, ErrorMessage |-> ""]
    ELSE [Status |-> "fail", FailMessages |-> <<"msg">>, ErrorMessage |-> ""]

\* a variant of Evaluate in which one errored policy spoils the others
EvaluateShared(ev, runs) ==
    [id \in DOMAIN ev.Policies |->
        IF \E other \in DOMAIN ev.Policies :
              evaluatePolicyWithConftest(runs[other]).Status = "error"
        THEN [Status |-> "error", FailMessages |-> <<>>,
              ErrorMessage |-> "conftest execution error"]
        ELSE evaluatePolicyWithConftest(runs[id])]

\* Evaluate, once the temporary file is written: one result per policy
Evaluate(ev, runs) ==
    [id \in DOMAIN ev.Policies |-> evaluatePolicyWithConftest(runs[id])]

\* the PolicyResult made of one evaluation result
PolicyResultOf(policyId, evalResult) ==
    LET polResult == [PolicyId |-> policyId,
                      IsPassing |-> Len(evalResult.FailMessages) = 0,
                      FailMessages |-> evalResult.FailMessages,
                      EvaluationStatus |-> evalResult.Status,
                      ErrorMessage |-> ""]
    IN  CASE evalResult.Status = "pass" ->
                [polResult EXCEPT !.IsPassing = TRUE, !.FailMessages = <<>>]
          [] evalResult.Status = "fail" ->
                [polResult EXCEPT !.IsPassing = FALSE,
                                  !.FailMessages = evalResult.FailMessages]
          [] evalResult.Status = "error" ->
                [polResult EXCEPT !.IsPassing = FALSE,
                                  !.ErrorMessage = evalResult.ErrorMessage,
                                  !.FailMessages = <<>>]
          [] OTHER -> polResult

\* a variant of EnvPolicyResults that evaluates skipped environments too
EnvPolicyResultsNoSkip(ev, manifest, runs) ==
    [policyId \in DOMAIN ev.Policies |->
        PolicyResultOf(policyId, Evaluate(ev, runs)[policyId])]

\* the results of one environment: policy id -> PolicyResult
EnvPolicyResults(ev, manifest, runs) ==
    IF manifest.Skipped
    THEN [policyId \in DOMAIN ev.Policies |->
             [PolicyId |-> policyId, IsPassing |-> TRUE, FailMessages |-> <<>>,
              EvaluationStatus |-> "pass", ErrorMessage |-> ""]]
    ELSE [policyId \in DOMAIN ev.Policies |->
             PolicyResultOf(policyId, Evaluate(ev, runs)[policyId])]

\* the counters and the lists at the start of one environment's loop
ZeroCounts ==
    [totalCnt |-> 0, failedCnt |-> 0, erroredCnt |-> 0, omittedCnt |-> 0,
     successCnt |-> 0,
     blockingSuccessCnt |-> 0, warningSuccessCnt |-> 0,
     recommendSuccessCnt |-> 0, overriddenSuccessCnt |-> 0,
     notInEffectSuccessCnt |-> 0,
     blockingFailedCnt |-> 0, warningFailedCnt |-> 0,
     recommendFailedCnt |-> 0, overriddenFailedCnt |-> 0,
     notInEffectFailedCnt |-> 0,
     blockingErroredCnt |-> 0, warningErroredCnt |-> 0,
     recommendErroredCnt |-> 0, overriddenErroredCnt |-> 0,
     notInEffectErroredCnt |-> 0,
     blockingPolicies |-> <<>>, warningPolicies |-> <<>>,
     recommendPolicies |-> <<>>, overriddenPolicies |-> <<>>,
     notInEffectPolicies |-> <<>>]

\* a variant of CountStatus that has no counter for the status "error"
CountStatusPassFail(acc, status, pass, fail, error) ==
    CASE status = "pass" -> [acc EXCEPT ![pass] = @ + 1]
      [] status = "fail" -> [acc EXCEPT ![fail] = @ + 1]
      [] OTHER -> acc

\* c++ for the counter a status selects, no counter for any other status
CountStatus(acc, status, pass, fail, error) ==
    CASE status = "pass" -> [acc EXCEPT ![pass] = @ + 1]
      [] status = "fail" -> [acc EXCEPT ![fail] = @ + 1]
      [] status = "error" -> [acc EXCEPT ![error] = @ + 1]
      [] OTHER -> acc

\* one pass of the loop over envToPolicyIdToResult[env]
CountResult(acc, enforcementLevel, result) ==
    LET status == result.EvaluationStatus
        a1 == [acc EXCEPT !.totalCnt = @ + 1]
        a2 == CountStatus(a1, status, "successCnt", "failedCnt", "erroredCnt")
    IN  CASE enforcementLevel = POLICY_LEVEL_BLOCK ->
                CountStatus(
                    [a2 EXCEPT !.blockingPolicies = Append(@, result)], status,
                    "blockingSuccessCnt", "blockingFailedCnt", "blockingErroredCnt")
          [] enforcementLevel = POLICY_LEVEL_WARNING ->
                CountStatus(
                    [a2 EXCEPT !.warningPolicies = Append(@, result)], status,
                    "warningSuccessCnt", "warningFailedCnt", "warningErroredCnt")
          [] enforcementLevel = POLICY_LEVEL_RECOMMEND ->
                CountStatus(
                    [a2 EXCEPT !.recommendPolicies = Append(@, result)], status,
                    "recommendSuccessCnt", "recommendFailedCnt",
                    "recommendErroredCnt")
          [] enforcementLevel = POLICY_LEVEL_OVERRIDE ->
                CountStatus(
                    [a2 EXCEPT !.overriddenPolicies = Append(@, result),
                               !.omittedCnt = @ + 1], status,
                    "overriddenSuccessCnt", "overriddenFailedCnt",
                    "overriddenErroredCnt")
          [] enforcementLevel = POLICY_LEVEL_NOT_IN_EFFECT ->
                CountStatus(
                    [a2 EXCEPT !.notInEffectPolicies = Append(@, result),
                               !.omittedCnt = @ + 1], status,
                    "notInEffectSuccessCnt", "notInEffectFailedCnt",
                    "notInEffectErroredCnt")
          [] OTHER -> a2

\* policyIdToEnforcementLevel[policyId]: "" for a missing key
LevelOf(policyIdToEnforcementLevel, policyId) ==
    IF policyId \in DOMAIN policyIdToEnforcementLevel
    THEN policyIdToEnforcementLevel[policyId]
    ELSE POLICY_LEVEL_UNKNOWN

\* the loop over the results of one environment, ranged over in this order
RECURSIVE CountLoop(_, _, _, _)
CountLoop(acc, policyIdToEnforcementLevel, results, order) ==
    IF order = <<>> THEN acc
    ELSE CountLoop(
             CountResult(acc, LevelOf(policyIdToEnforcementLevel, Head(order)),
                         results[Head(order)]),
             policyIdToEnforcementLevel, results, Tail(order))

PolicyMatrix(acc) ==
    [BlockingPolicies |-> acc.blockingPolicies,
     WarningPolicies |-> acc.warningPolicies,
     RecommendPolicies |-> acc.recommendPolicies,
     OverriddenPolicies |-> acc.overriddenPolicies,
     NotInEffectPolicies |-> acc.notInEffectPolicies]

\* a variant of PassingStatus in which the omitted policies count too
PassingStatusWithOmitted(acc) ==
    [PassBlockingCheck |->
         /\ acc.blockingFailedCnt + acc.overriddenFailedCnt = 0
         /\ acc.blockingErroredCnt + acc.overriddenErroredCnt = 0,
     PassWarningCheck |->
         /\ acc.warningFailedCnt + acc.notInEffectFailedCnt = 0
         /\ acc.warningErroredCnt + acc.notInEffectErroredCnt = 0,
     PassRecommendCheck |->
         acc.recommendFailedCnt = 0 /\ acc.recommendErroredCnt = 0]

PassingStatus(acc) ==
    [PassBlockingCheck |-> acc.blockingFailedCnt = 0 /\ acc.blockingErroredCnt = 0,
     PassWarningCheck |-> acc.warningFailedCnt = 0 /\ acc.warningErroredCnt = 0,
     PassRecommendCheck |->
         acc.recommendFailedCnt = 0 /\ acc.recommendErroredCnt = 0]

PolicyCounts(acc) ==
    [TotalCount |-> acc.totalCnt,
     TotalSuccess |-> acc.successCnt,
     TotalFailed |-> acc.failedCnt,
     TotalErrored |-> acc.erroredCnt,
     TotalOmitted |-> acc.omittedCnt,
     TotalOmittedFailed |-> acc.overriddenFailedCnt + acc.notInEffectFailedCnt,
     TotalOmittedSuccess |-> acc.overriddenSuccessCnt + acc.notInEffectSuccessCnt,
     BlockingSuccessCount |-> acc.blockingSuccessCnt,
     BlockingFailedCount |-> acc.blockingFailedCnt,
     BlockingErroredCount |-> acc.blockingErroredCnt,
     WarningSuccessCount |-> acc.warningSuccessCnt,
     WarningFailedCount |-> acc.warningFailedCnt,
     WarningErroredCount |-> acc.warningErroredCnt,
     RecommendSuccessCount |-> acc.recommendSuccessCnt,
     RecommendFailedCount |-> acc.recommendFailedCnt,
     RecommendErroredCount |-> acc.recommendErroredCnt,
     OverriddenSuccessCount |-> acc.overriddenSuccessCnt,
     OverriddenFailedCount |-> acc.overriddenFailedCnt,
     OverriddenErroredCount |-> acc.overriddenErroredCnt,
     NotInEffectSuccessCount |-> acc.notInEffectSuccessCnt,
     NotInEffectFailedCount |-> acc.notInEffectFailedCnt,
     NotInEffectErroredCount |-> acc.notInEffectErroredCnt]

\* the PolicyEvaluation GeneratePolicyEvalResultForManifests crafts when
\* every Evaluate succeeds; order[env] is the order in which the results
\* of env are ranged over
CraftPolicyEvaluation(ev, b, policyIdToEnforcementLevel, runs, order) ==
    LET envManifests == b.EnvManifestBuild
        envToPolicyIdToResult ==
            [env \in DOMAIN envManifests |->
                EnvPolicyResults(ev, envManifests[env], runs[env])]
        acc == [env \in DOMAIN envManifests |->
                   CountLoop(ZeroCounts, policyIdToEnforcementLevel,
                             envToPolicyIdToResult[env], order[env])]
    IN  [EnvironmentSummary |->
             [env \in DOMAIN envManifests |->
                 [PassingStatus |-> PassingStatus(acc[env]),
                  PolicyCounts |-> PolicyCounts(acc[env])]],
         PolicyMatrix |->
             [env \in DOMAIN envManifests |-> PolicyMatrix(acc[env])]]

\* no PolicyEvaluation (a nil result)
NoEvaluation == [EnvironmentSummary |-> <<>>, PolicyMatrix |-> <<>>]

(***************************************************************************)
(* Inputs of the enforcement engine.                                       *)
(***************************************************************************)
PolicyIds == {"p1", "p2"}
\* the order in which compliance-config.yaml declares its policies
Declaration == <<"p1", "p2">>
Phrases == {<<>>, <<"/", "a">>, <<"/", "b">>}
CommentTexts == {<<"/", "a">>, <<"/", "b">>, <<"l", "g", "t", "m">>}
CommentLists == UNION {[1..n -> CommentTexts] : n \in 0..MaxComments}

RegoFile == <<"h", "a", ".", "r", "e", "g", "o">>
RegoTestFile == <<"h", "a", "_", "t", "e", "s", "t", ".", "r", "e", "g", "o">>

Schedules ==
    [InEffectAfter : TimeOrNil, IsWarningAfter : TimeOrNil,
     IsBlockingAfter : TimeOrNil, Override : [Comment : Phrases]]

\* policies that differ in schedule and override comment only
ScheduledPolicies ==
    [Name : {"n"}, Type : {"opa"}, FilePath : {RegoFile}, Enforcement : Schedules]

Docs(policies) == UNION {[S -> policies] : S \in SUBSET PolicyIds}

\* NewPolicyEvaluator
NewPolicyEvaluator ==
    [Policies |-> <<>>, fullPathToPolicy |-> <<>>, overrideCmdToPolicyId |-> <<>>]

PolicyIdle ==
    /\ disk = [readable |-> FALSE, doc |-> <<>>, files |-> {}]
    /\ e = NewPolicyEvaluator
    /\ pc = "idle"
    /\ loadErr = NoError
    /\ ghComments = <<>>
    /\ now = 0
    /\ levels = <<>>

EvalIdle ==
    /\ build = [EnvManifestBuild |-> <<>>, OverlayKeys |-> <<>>]
    /\ feed = <<>>
    /\ evaluation = NoEvaluation
    /\ evalErr = NoError

(***************************************************************************)
(* Operations of the evaluator.                                            *)
(***************************************************************************)
LoadAndValidate ==
    /\ pc = "new"
    /\ \E r \in LoadAndValidateResults(e, disk) :
          /\ e' = r.data
          /\ loadErr' = r.err
          /\ pc' = IF r.err = NoError THEN "loaded" ELSE "loadFailed"
    /\ UNCHANGED <<disk, ghComments, now, levels>>
    /\ UNCHANGED <<pathVars, evalVars, runVars>>

\* a second call of LoadAndValidate on the evaluator that the first call
\* loaded, with the same file on disk
LoadAndValidateAgain ==
    /\ pc = "loaded"
    /\ \E r \in LoadAndValidateResults(e, disk) :
          /\ e' = r.data
          /\ loadErr' = r.err
          /\ pc' = IF r.err = NoError THEN "reloaded" ELSE "reloadFailed"
    /\ UNCHANGED <<disk, ghComments, now, levels>>
    /\ UNCHANGED <<pathVars, evalVars, runVars>>

\* a call of DetermineEnforcementLevel on the loaded evaluator
CallDetermineEnforcementLevel ==
    /\ pc = "loaded"
    /\ \E comments \in CommentLists, t \in Time :
          /\ ghComments' = comments
          /\ now' = t
          /\ levels' = DetermineEnforcementLevel(e, comments, t)
    /\ pc' = "classified"
    /\ UNCHANGED <<disk, e, loadErr>>
    /\ UNCHANGED <<pathVars, evalVars, runVars>>

\* the runs of conftest the model draws from: a clean run, a run with
\* failures (exit code 1), a crash (exit code 2), and output that holds
\* no result
ConftestRuns ==
    {[cmdErr |-> "nil", exitCode |-> 0, stdout |-> "no failures"],
     [cmdErr |-> "ExitError", exitCode |-> 1, stdout |-> "failures"],
     [cmdErr |-> "ExitError", exitCode |-> 2, stdout |-> "invalid json"],
     [cmdErr |-> "nil", exitCode |-> 0, stdout |-> "no results"]}

\* schedules that reach every level between them
MatrixSchedules ==
    [InEffectAfter : {NoTime, MaxTime}, IsWarningAfter : {NoTime},
     IsBlockingAfter : {NoTime}, Override : [Comment : {<<>>, <<"/", "a">>}]]
    \cup
    [InEffectAfter : {0}, IsWarningAfter : {0},
     IsBlockingAfter : {NoTime, 0}, Override : [Comment : {<<>>, <<"/", "a">>}]]

MatrixPolicies ==
    [Name : {"n"}, Type : {"opa"}, FilePath : {RegoFile},
     Enforcement : MatrixSchedules]

MatrixComments == {<<>>, << <<"/", "a">> >>}

Overlays == {<<"a">>, <<"b">>}

BuildEnvManifestResults == [Skipped : BOOLEAN]

\* GeneratePolicyEvalResultForManifests(ctx, build, ghComments) on the
\* loaded evaluator
GeneratePolicyEvalResultForManifests ==
    /\ pc = "loaded"
    /\ \E comments \in MatrixComments :
          /\ ghComments' = comments
          /\ \/ \* os.CreateTemp or the write fails for an environment
                /\ \E env \in DOMAIN build.EnvManifestBuild :
                      ~build.EnvManifestBuild[env].Skipped
                /\ feed' = <<>>
                /\ evalErr' = Error("failed to evaluate policy for environment", "")
                /\ evaluation' = NoEvaluation
                /\ UNCHANGED <<now, levels>>
             \/ \E t \in Time,
                   runs \in [DOMAIN build.EnvManifestBuild ->
                                [DOMAIN e.Policies -> ConftestRuns]],
                   order \in [DOMAIN build.EnvManifestBuild ->
                                 Orders(DOMAIN e.Policies)] :
                   /\ feed' = runs
                   /\ now' = t
                   /\ levels' = DetermineEnforcementLevel(e, comments, t)
                   /\ evalErr' = NoError
                   /\ evaluation' =
                         CraftPolicyEvaluation(e, build, levels', runs, order)
    /\ pc' = "evaluated"
    /\ UNCHANGED <<disk, e, loadErr, build>>
    /\ UNCHANGED <<pathVars, runVars>>

(***************************************************************************)
(* The runner: its options, the manifest builds and Process.               *)
(***************************************************************************)
\* kustomize.ErrOverlayNotFound, told apart from every other error
ErrOverlayNotFound == "overlay not found"

KUSTOMIZE_OVERLAY_DIR_NAME ==
    <<"e", "n", "v", "i", "r", "o", "n", "m", "e", "n", "t", "s">>

\* filepath.Join of two elements
FilepathJoin(a, b) ==
    IF a = <<>> THEN b ELSE IF b = <<>> THEN a ELSE a \o <<"/">> \o b

\* what kustomize build prints for the overlay at a path
Manifest(path) == <<path>>

\* a variant of Builder.Build that skips a missing overlay whatever the flag
BuildAlwaysSkipping(failOnOverlayNotFound, t, path, overlayName) ==
    LET envPath == FilepathJoin(FilepathJoin(path, KUSTOMIZE_OVERLAY_DIR_NAME),
                                overlayName)
    IN  IF t[envPath] = "absent"
        THEN [manifest |-> <<>>, err |-> ErrOverlayNotFound]
        ELSE [manifest |-> Manifest(envPath), err |-> "nil"]

\* Builder.Build on a checkout t whose service and base directories exist:
\* validateBuildPath on the overlay directory, then buildAtPath, whose
\* kustomize command fails when its context is cancelled
Build(failOnOverlayNotFound, t, path, overlayName) ==
    LET envPath == FilepathJoin(FilepathJoin(path, KUSTOMIZE_OVERLAY_DIR_NAME),
                                overlayName)
    IN  IF t[envPath] = "absent"
        THEN [manifest |-> <<>>,
              err |-> IF failOnOverlayNotFound THEN "environment not found"
                      ELSE ErrOverlayNotFound]
        ELSE IF t[envPath] = "cancelled"
        THEN [manifest |-> <<>>, err |-> "kustomize build failed"]
        ELSE [manifest |-> Manifest(envPath), err |-> "nil"]

\* Builder.BuildAtFullPath: the same on the overlay directory itself
BuildAtFullPath(failOnOverlayNotFound, t, fullPath) ==
    IF t[fullPath] = "absent"
    THEN [manifest |-> <<>>,
          err |-> IF failOnOverlayNotFound THEN "environment not found"
                  ELSE ErrOverlayNotFound]
    ELSE IF t[fullPath] = "cancelled"
    THEN [manifest |-> <<>>, err |-> "kustomize build failed"]
    ELSE [manifest |-> Manifest(fullPath), err |-> "nil"]

\* models.BuildEnvManifestResult of an overlay that was skipped
SkippedResult(key, fullBuildPath, reason) ==
    [OverlayKey |-> key, Environment |-> key, FullBuildPath |-> fullBuildPath,
     BeforeManifest |-> <<>>, AfterManifest |-> <<>>,
     Skipped |-> TRUE, SkipReason |-> reason]

\* models.BuildEnvManifestResult of an overlay that was built
BuiltResult(key, fullBuildPath, beforeManifest, afterManifest) ==
    [OverlayKey |-> key, Environment |-> key, FullBuildPath |-> fullBuildPath,
     BeforeManifest |-> beforeManifest, AfterManifest |-> afterManifest,
     Skipped |-> FALSE, SkipReason |-> ""]

\* results[key] = r
Put(results, key, r) ==
    [k \in DOMAIN results \cup {key} |-> IF k = key THEN r ELSE results[k]]

NoBuild == [EnvManifestBuild |-> <<>>, OverlayKeys |-> <<>>]

\* the loop of buildManifestsLegacy from the i-th environment on
RECURSIVE LegacyLoop(_, _, _, _, _, _)
LegacyLoop(o, t, beforePath, afterPath, results, i) ==
    LET envs == o.Environments
        env == envs[i]
        before == Build(o.FailOnOverlayNotFound, t, beforePath, env)
        after == Build(o.FailOnOverlayNotFound, t, afterPath, env)
        next(r) == LegacyLoop(o, t, beforePath, afterPath, Put(results, env, r),
                              i + 1)
    IN  IF i > Len(envs)
        THEN [err |-> "nil",
              build |-> [EnvManifestBuild |-> results, OverlayKeys |-> envs]]
        ELSE IF before.err = ErrOverlayNotFound
        THEN next(SkippedResult(env, <<>>, "overlay not found in before path"))
        ELSE IF before.err # "nil"
        THEN [err |-> before.err, build |-> NoBuild]
        ELSE IF after.err = ErrOverlayNotFound
        THEN next(SkippedResult(env, <<>>, "overlay not found in after path"))
        ELSE IF after.err # "nil"
        THEN [err |-> after.err, build |-> NoBuild]
        ELSE next(BuiltResult(env, <<>>, before.manifest, after.manifest))

buildManifestsLegacy(o, t, beforePath, afterPath) ==
    LegacyLoop(o, t, beforePath, afterPath, <<>>, 1)

\* a variant of the loop of buildManifestsDynamic that builds an overlay
\* from whichever side has it
RECURSIVE DynamicLoopEitherSide(_, _, _, _, _, _, _, _)
DynamicLoopEitherSide(o, t, beforeRoot, afterRoot, pathCombos, results, overlayKeys, i) ==
    LET combo == pathCombos[i]
        before == BuildAtFullPath(o.FailOnOverlayNotFound, t,
                                  FilepathJoin(beforeRoot, combo.Path))
        after == BuildAtFullPath(o.FailOnOverlayNotFound, t,
                                 FilepathJoin(afterRoot, combo.Path))
        next(r) == DynamicLoopEitherSide(o, t, beforeRoot, afterRoot, pathCombos,
                       Put(results, combo.OverlayKey, r),
                       Append(overlayKeys, combo.OverlayKey), i + 1)
    IN  IF i > Len(pathCombos)
        THEN [err |-> "nil",
              build |-> [EnvManifestBuild |-> results,
                         OverlayKeys |-> overlayKeys]]
        ELSE IF before.err \notin {"nil", ErrOverlayNotFound}
        THEN [err |-> before.err, build |-> NoBuild]
        ELSE IF after.err \notin {"nil", ErrOverlayNotFound}
        THEN [err |-> after.err, build |-> NoBuild]
        ELSE IF before.err = ErrOverlayNotFound /\ after.err = ErrOverlayNotFound
        THEN next(SkippedResult(combo.OverlayKey, combo.Path,
                                "overlay not found in before path"))
        ELSE next(BuiltResult(combo.OverlayKey, combo.Path, before.manifest,
                              after.manifest))

\* a variant of the loop of buildManifestsDynamic that leaves the skipped
\* overlays out of the list of keys
RECURSIVE DynamicLoopDroppingSkipped(_, _, _, _, _, _, _, _)
DynamicLoopDroppingSkipped(o, t, beforeRoot, afterRoot, pathCombos, results, overlayKeys, i) ==
    LET combo == pathCombos[i]
        before == BuildAtFullPath(o.FailOnOverlayNotFound, t,
                                  FilepathJoin(beforeRoot, combo.Path))
        after == BuildAtFullPath(o.FailOnOverlayNotFound, t,
                                 FilepathJoin(afterRoot, combo.Path))
        next(r, listed) ==
            DynamicLoopDroppingSkipped(o, t, beforeRoot, afterRoot, pathCombos,
                Put(results, combo.OverlayKey, r), listed, i + 1)
    IN  IF i > Len(pathCombos)
        THEN [err |-> "nil",
              build |-> [EnvManifestBuild |-> results,
                         OverlayKeys |-> overlayKeys]]
        ELSE IF before.err = ErrOverlayNotFound
        THEN next(SkippedResult(combo.OverlayKey, combo.Path,
                                "overlay not found in before path"),
                  overlayKeys)
        ELSE IF before.err # "nil"
        THEN [err |-> before.err, build |-> NoBuild]
        ELSE IF after.err = ErrOverlayNotFound
        THEN next(SkippedResult(combo.OverlayKey, combo.Path,
                                "overlay not found in after path"),
                  overlayKeys)
        ELSE IF after.err # "nil"
        THEN [err |-> after.err, build |-> NoBuild]
        ELSE next(BuiltResult(combo.OverlayKey, combo.Path, before.manifest,
                              after.manifest),
                  Append(overlayKeys, combo.OverlayKey))

\* a variant of the loop of buildManifestsDynamic that lists a key once
RECURSIVE DynamicLoopListingOnce(_, _, _, _, _, _, _, _)
DynamicLoopListingOnce(o, t, beforeRoot, afterRoot, pathCombos, results, overlayKeys, i) ==
    LET combo == pathCombos[i]
        before == BuildAtFullPath(o.FailOnOverlayNotFound, t,
                                  FilepathJoin(beforeRoot, combo.Path))
        after == BuildAtFullPath(o.FailOnOverlayNotFound, t,
                                 FilepathJoin(afterRoot, combo.Path))
        listed == IF combo.OverlayKey \in DOMAIN results THEN overlayKeys
                  ELSE Append(overlayKeys, combo.OverlayKey)
        next(r) == DynamicLoopListingOnce(o, t, beforeRoot, afterRoot,
                       pathCombos, Put(results, combo.OverlayKey, r), listed,
                       i + 1)
    IN  IF i > Len(pathCombos)
        THEN [err |-> "nil",
              build |-> [EnvManifestBuild |-> results,
                         OverlayKeys |-> overlayKeys]]
        ELSE IF before.err = ErrOverlayNotFound
        THEN next(SkippedResult(combo.OverlayKey, combo.Path,
                                "overlay not found in before path"))
        ELSE IF before.err # "nil"
        THEN [err |-> before.err, build |-> NoBuild]
        ELSE IF after.err = ErrOverlayNotFound
        THEN next(SkippedResult(combo.OverlayKey, combo.Path,
                                "overlay not found in after path"))
        ELSE IF after.err # "nil"
        THEN [err |-> after.err, build |-> NoBuild]
        ELSE next(BuiltResult(combo.OverlayKey, combo.Path, before.manifest,
                              after.manifest))

\* the loop of buildManifestsDynamic from the i-th combination on
RECURSIVE DynamicLoop(_, _, _, _, _, _, _, _)
DynamicLoop(o, t, beforeRoot, afterRoot, pathCombos, results, overlayKeys, i) ==
    LET combo == pathCombos[i]
        before == BuildAtFullPath(o.FailOnOverlayNotFound, t,
                                  FilepathJoin(beforeRoot, combo.Path))
        after == BuildAtFullPath(o.FailOnOverlayNotFound, t,
                                 FilepathJoin(afterRoot, combo.Path))
        next(r) == DynamicLoop(o, t, beforeRoot, afterRoot, pathCombos,
                               Put(results, combo.OverlayKey, r),
                               Append(overlayKeys, combo.OverlayKey), i + 1)
    IN  IF i > Len(pathCombos)
        THEN [err |-> "nil",
              build |-> [EnvManifestBuild |-> results,
                         OverlayKeys |-> overlayKeys]]
        ELSE IF before.err = ErrOverlayNotFound
        THEN next(SkippedResult(combo.OverlayKey, combo.Path,
                                "overlay not found in before path"))
        ELSE IF before.err # "nil"
        THEN [err |-> before.err, build |-> NoBuild]
        ELSE IF after.err = ErrOverlayNotFound
        THEN next(SkippedResult(combo.OverlayKey, combo.Path,
                                "overlay not found in after path"))
        ELSE IF after.err # "nil"
        THEN [err |-> after.err, build |-> NoBuild]
        ELSE next(BuiltResult(combo.OverlayKey, combo.Path, before.manifest,
                              after.manifest))

\* no PathBuilder: the nil pointer of the options
NoPathBuilder == [Template |-> <<>>, Variables |-> <<>>]

\* the builder made, or the error that Validate found in it
ValidatedBuilder(made, problem) ==
    IF problem # "nil" THEN [err |-> problem, pb |-> NoPathBuilder]
    ELSE [err |-> "nil", pb |-> made]

\* the builder of a template and the parsed values, validated
ParsedBuilder(template, variables) ==
    IF variables.err # "nil" THEN [err |-> variables.err, pb |-> NoPathBuilder]
    ELSE ValidatedBuilder(
            [Template |-> template, Variables |-> variables.result],
            Validate([Template |-> template, Variables |-> variables.result]))

\* NewPathBuilder(template, valuesStr), then Validate on the builder made
PathBuilderOf(template, valuesStr) ==
    ParsedBuilder(template, ParseValues(valuesStr))

\* buildManifestsDynamic: every result the order of a map's keys allows
buildManifestsDynamic(o, t, beforeRoot, afterRoot) ==
    {IF g.err # "nil"
     THEN [err |-> "failed to generate path combinations", build |-> NoBuild]
     ELSE DynamicLoop(o, t, beforeRoot, afterRoot, g.combos, <<>>, <<>>, 1) :
        g \in GenerateAllPathsResults(o.PathBuilder)}

\* a map from overlay key to path, the later combination winning
RECURSIVE PathMap(_, _)
PathMap(combos, i) ==
    IF i = 0 THEN <<>>
    ELSE Put(PathMap(combos, i - 1), combos[i].OverlayKey, combos[i].Path)

\* the overlay keys of the combinations from the i-th on
RECURSIVE KeysOf(_, _)
KeysOf(combos, i) ==
    IF i > Len(combos) THEN <<>>
    ELSE <<combos[i].OverlayKey>> \o KeysOf(combos, i + 1)

\* a variant of AfterOnlyKeys that keeps every key of the after combinations
RECURSIVE AfterKeysAll(_, _, _)
AfterKeysAll(afterCombos, beforePathMap, i) ==
    IF i > Len(afterCombos) THEN <<>>
    ELSE <<afterCombos[i].OverlayKey>>
         \o AfterKeysAll(afterCombos, beforePathMap, i + 1)

\* the overlay keys of the after combinations that no before combination has
RECURSIVE AfterOnlyKeys(_, _, _)
AfterOnlyKeys(afterCombos, beforePathMap, i) ==
    IF i > Len(afterCombos) THEN <<>>
    ELSE (IF afterCombos[i].OverlayKey \in DOMAIN beforePathMap THEN <<>>
          ELSE <<afterCombos[i].OverlayKey>>)
         \o AfterOnlyKeys(afterCombos, beforePathMap, i + 1)

\* map[key] of a Go map of strings: the empty string for a missing key
Lookup(map, key) == IF key \in DOMAIN map THEN map[key] ELSE <<>>

\* the loop of buildManifestsLocalDynamic from the i-th overlay key on
RECURSIVE LocalDynamicLoop(_, _, _, _, _, _, _)
LocalDynamicLoop(o, t, beforePathMap, afterPathMap, overlayKeys, results, i) ==
    LET overlayKey == overlayKeys[i]
        beforePath == Lookup(beforePathMap, overlayKey)
        afterPath == Lookup(afterPathMap, overlayKey)
        before == BuildAtFullPath(o.FailOnOverlayNotFound, t, beforePath)
        after == BuildAtFullPath(o.FailOnOverlayNotFound, t, afterPath)
        beforeNotFound == before.err = ErrOverlayNotFound
        afterNotFound == after.err = ErrOverlayNotFound
        next(r) == LocalDynamicLoop(o, t, beforePathMap, afterPathMap,
                       overlayKeys, Put(results, overlayKey, r), i + 1)
    IN  IF i > Len(overlayKeys)
        THEN [err |-> "nil",
              build |-> [EnvManifestBuild |-> results,
                         OverlayKeys |-> overlayKeys]]
        ELSE IF before.err # "nil" /\ ~beforeNotFound
        THEN [err |-> before.err, build |-> NoBuild]
        ELSE IF after.err # "nil" /\ ~afterNotFound
        THEN [err |-> after.err, build |-> NoBuild]
        ELSE IF beforeNotFound /\ afterNotFound
        THEN next(SkippedResult(overlayKey, afterPath,
                     "overlay not found in both before and after paths"))
        ELSE next(BuiltResult(overlayKey, afterPath,
                     IF beforeNotFound THEN <<>> ELSE before.manifest,
                     IF afterNotFound THEN <<>> ELSE after.manifest))

\* buildManifestsLocalDynamic: every result the order of a map's keys allows
buildManifestsLocalDynamic(o, t) ==
    {IF b.err # "nil"
     THEN [err |-> "failed to generate before path combinations",
           build |-> NoBuild]
     ELSE IF a.err # "nil"
     THEN [err |-> "failed to generate after path combinations",
           build |-> NoBuild]
     ELSE LET beforePathMap == PathMap(b.combos, Len(b.combos))
              afterPathMap == PathMap(a.combos, Len(a.combos))
              overlayKeys == KeysOf(b.combos, 1)
                                \o AfterOnlyKeys(a.combos, beforePathMap, 1)
          IN  LocalDynamicLoop(o, t, beforePathMap, afterPathMap, overlayKeys,
                               <<>>, 1) :
        b \in GenerateAllPathsResults(o.BeforePathBuilder),
        a \in GenerateAllPathsResults(o.AfterPathBuilder)}

\* Options.UseDynamicPaths and Options.UseLocalDynamicPaths
UseDynamicPaths(o) ==
    o.KustomizeBuildPath # <<>> /\ o.KustomizeBuildValues # <<>>

UseLocalDynamicPaths(o) ==
    /\ o.LcBeforeKustomizeBuildPath # <<>>
    /\ o.LcAfterKustomizeBuildPath # <<>>
    /\ o.KustomizeBuildValues # <<>>

\* RunnerBase.BuildManifests
BuildManifests(o, t, beforePath, afterPath) ==
    IF UseDynamicPaths(o) THEN buildManifestsDynamic(o, t, beforePath, afterPath)
    ELSE {buildManifestsLegacy(o, t, beforePath, afterPath)}

\* the builds of RunnerLocal.Process, by the mode of the options
ProcessBuilds(o, t) ==
    IF UseLocalDynamicPaths(o) THEN buildManifestsLocalDynamic(o, t)
    ELSE IF UseDynamicPaths(o)
    THEN BuildManifests(o, t, o.LcBeforeManifestsPath, o.LcAfterManifestsPath)
    ELSE BuildManifests(o, t,
                        FilepathJoin(o.LcBeforeManifestsPath, o.Service),
                        FilepathJoin(o.LcAfterManifestsPath, o.Service))

(***************************************************************************)
(* Inputs of the runner.                                                   *)
(***************************************************************************)
EnvNames == {<<"a">>, <<"b">>}

\* lists of one or two overlay names, in either order and with a repeat
EnvLists == {<< <<"a">> >>, << <<"a">>, <<"b">> >>, << <<"b">>, <<"a">> >>,
             << <<"a">>, <<"a">> >>}

BeforeRoot == <<"x">>
AfterRoot == <<"y">>
ServiceName == <<"s">>

\* the flags every invocation of the model gives: a local run whose
\* PathBuilders are not made yet
CommonOptions ==
    [RunMode : {"local"}, FailOnOverlayNotFound : BOOLEAN,
     PathBuilder : {NoPathBuilder}, BeforePathBuilder : {NoPathBuilder},
     AfterPathBuilder : {NoPathBuilder}]

\* the record o with the fields of the record more added to it
With(o, more) ==
    [f \in DOMAIN o \cup DOMAIN more |-> IF f \in DOMAIN more THEN more[f] ELSE o[f]]

\* --service with --environments, or with none: the legacy mode
LegacyOptions ==
    {With(o, more) : o \in CommonOptions, more \in
        [Service : {ServiceName}, Environments : EnvLists \cup {<<>>},
         LcBeforeManifestsPath : {BeforeRoot}, LcAfterManifestsPath : {AfterRoot},
         KustomizeBuildPath : {<<>>}, KustomizeBuildValues : {<<>>},
         LcBeforeKustomizeBuildPath : {<<>>},
         LcAfterKustomizeBuildPath : {<<>>}]}

\* --kustomize-build-values: A=a;B=b and A=a,b;B=b and A=b,a;B=b and
\* A=a,a;B=b
GoodValues ==
    {<<"A", "=", "a", ";", "B", "=", "b">>,
     <<"A", "=", "a", ",", "b", ";", "B", "=", "b">>,
     <<"A", "=", "b", ",", "a", ";", "B", "=", "b">>,
     <<"A", "=", "a", ",", "a", ";", "B", "=", "b">>}

\* a declaration with a token that has no "=", and one that binds B only
BadValues == {<<"A">>, <<"B", "=", "b">>}

\* one template under two manifest roots: the shared dynamic mode
DynamicOptions ==
    {With(o, more) : o \in CommonOptions, more \in
        [Service : {<<>>}, Environments : {<<>>},
         LcBeforeManifestsPath : {BeforeRoot}, LcAfterManifestsPath : {AfterRoot},
         KustomizeBuildPath : {<<"[", "A", "]">>},
         KustomizeBuildValues : GoodValues \cup BadValues,
         LcBeforeKustomizeBuildPath : {<<>>},
         LcAfterKustomizeBuildPath : {<<>>}]}

\* a template for each side next to the shared template and the manifest
\* roots: the local separate mode
LocalDynamicOptions ==
    {With(o, more) : o \in CommonOptions, more \in
        [Service : {<<>>}, Environments : {<<>>},
         LcBeforeManifestsPath : {BeforeRoot}, LcAfterManifestsPath : {AfterRoot},
         KustomizeBuildPath : {<<"[", "A", "]">>},
         KustomizeBuildValues : GoodValues \cup BadValues,
         LcBeforeKustomizeBuildPath : {<<"x", "/", "[", "A", "]">>},
         LcAfterKustomizeBuildPath : {<<"y", "/", "[", "A", "]">>,
                                      <<"y", "/", "[", "B", "]">>}]}

\* the invocation of the README for the local separate mode: the two
\* templates and the values, nothing else
ReadmeLocalOptions ==
    {With(o, more) : o \in CommonOptions, more \in
        [Service : {<<>>}, Environments : {<<>>},
         LcBeforeManifestsPath : {<<>>}, LcAfterManifestsPath : {<<>>},
         KustomizeBuildPath : {<<>>},
         KustomizeBuildValues : {<<"A", "=", "a", ",", "b", ";", "B", "=", "b">>},
         LcBeforeKustomizeBuildPath : {<<"x", "/", "[", "A", "]">>},
         LcAfterKustomizeBuildPath : {<<"y", "/", "[", "A", "]">>}]}

Options ==
    LegacyOptions \cup DynamicOptions \cup LocalDynamicOptions
       \cup ReadmeLocalOptions

\* the overlay directories a run with the options can ask kustomize for
BuildPaths(o) ==
    IF UseLocalDynamicPaths(o)
    THEN {FilepathJoin(root, env) : root \in {BeforeRoot, AfterRoot},
                                   env \in EnvNames} \cup {<<>>}
    ELSE IF UseDynamicPaths(o)
    THEN {FilepathJoin(root, env) : root \in {BeforeRoot, AfterRoot},
                                   env \in EnvNames}
    ELSE {FilepathJoin(FilepathJoin(FilepathJoin(root, o.Service),
                                    KUSTOMIZE_OVERLAY_DIR_NAME), env) :
             root \in {BeforeRoot, AfterRoot}, env \in EnvNames}

\* a policy that recommends from time 0 and blocks from the last time on
RunPolicy ==
    [Name |-> "n", Type |-> "opa", FilePath |-> RegoFile,
     Enforcement |-> [InEffectAfter |-> 0, IsWarningAfter |-> NoTime,
                      IsBlockingAfter |-> MaxTime,
                      Override |-> [Comment |-> <<>>]]]

\* the same policy without its name, which validation refuses
NamelessPolicy == [RunPolicy EXCEPT !.Name = ""]

\* the same policy blocking before it warns, which validation refuses
DisorderedPolicy ==
    [RunPolicy EXCEPT !.Enforcement.IsWarningAfter = MaxTime,
                      !.Enforcement.IsBlockingAfter = 0]

\* the same policy with an override phrase
PhrasePolicy ==
    [RunPolicy EXCEPT !.Enforcement.Override.Comment = <<"/", "a">>]

\* the configuration that loads
GoodDoc == [id \in PolicyIds |-> RunPolicy]

\* the configuration that loads, one with a policy that validation refuses,
\* and one with the same override phrase on both policies
RunDocs ==
    {[id \in PolicyIds |-> IF id = "p1" THEN p ELSE RunPolicy] :
        p \in {RunPolicy, NamelessPolicy, DisorderedPolicy}}
       \cup {[id \in PolicyIds |-> PhrasePolicy]}

\* the configurations with the policy file and its test file on disk, and
\* the configuration that loads without the test file
RunDisks ==
    {[readable |-> TRUE, doc |-> d, files |-> {RegoFile, RegoTestFile}] :
        d \in RunDocs}
       \cup {[readable |-> TRUE, doc |-> GoodDoc, files |-> {RegoFile}]}

\* conftest finding nothing, and conftest reporting failures
RunRuns ==
    {[cmdErr |-> "nil", exitCode |-> 0, stdout |-> "no failures"],
     [cmdErr |-> "ExitError", exitCode |-> 1, stdout |-> "failures"]}

\* the conftest outcomes of the overlays, p2 passing everywhere
RunFeeds ==
    {f \in [EnvNames -> [PolicyIds -> RunRuns]] :
        \A env \in EnvNames : f[env]["p2"].stdout = "no failures"}

\* no report was made
NoReport == <<>>

\* the context of the run is never cancelled
NeverCancelled == [at |-> "never", done |-> EnvNames]

\* the context is cancelled before the first build, or after the builds
\* when the overlays in done have been evaluated and the others have not
Cancellations ==
    {[at |-> "build", done |-> {}]}
       \cup {[at |-> "evaluate", done |-> d] : d \in SUBSET EnvNames \ {EnvNames}}

\* exec.CommandContext on a cancelled context: the command is not started,
\* Run returns the context's error and stdout is empty, which is no JSON
CancelledRun == [cmdErr |-> "context canceled", exitCode |-> 0,
                 stdout |-> "invalid json"]

\* the checkout as the kustomize commands of a run find it
Checkout(t, cancel) ==
    IF cancel.at = "build"
    THEN [p \in DOMAIN t |-> IF t[p] = "overlay" THEN "cancelled" ELSE t[p]]
    ELSE t

\* the conftest outcomes as the run meets them
Conftest(runs, cancel) ==
    [env \in DOMAIN runs |->
        IF env \in cancel.done THEN runs[env]
        ELSE [id \in DOMAIN runs[env] |-> CancelledRun]]

NoRun == [options |-> "given", called |-> FALSE, err |-> "nil",
          report |-> NoReport, cancel |-> NeverCancelled]

RunIdle ==
    /\ opts = <<>>
    /\ tree = <<>>
    /\ proc = NoRun

(***************************************************************************)
(* Operations of the runner.                                               *)
(***************************************************************************)
\* the error of InitializePathBuilder and the options it leaves, given the
\* builders of the three templates
InitializedWith(o, before, after, shared) ==
    IF UseLocalDynamicPaths(o)
    THEN IF before.err # "nil" THEN [err |-> before.err, opts |-> o]
         ELSE IF after.err # "nil"
         THEN [err |-> after.err,
               opts |-> [o EXCEPT !.BeforePathBuilder = before.pb]]
         ELSE [err |-> "nil",
               opts |-> [o EXCEPT !.BeforePathBuilder = before.pb,
                                  !.AfterPathBuilder = after.pb]]
    ELSE IF UseDynamicPaths(o)
    THEN IF shared.err # "nil" THEN [err |-> shared.err, opts |-> o]
         ELSE [err |-> "nil", opts |-> [o EXCEPT !.PathBuilder = shared.pb]]
    ELSE [err |-> "nil", opts |-> o]

\* Options.InitializePathBuilder
InitializePathBuilder(o) ==
    InitializedWith(o,
        PathBuilderOf(o.LcBeforeKustomizeBuildPath, o.KustomizeBuildValues),
        PathBuilderOf(o.LcAfterKustomizeBuildPath, o.KustomizeBuildValues),
        PathBuilderOf(o.KustomizeBuildPath, o.KustomizeBuildValues))

\* the checks of validateOptions, given what InitializePathBuilder returns
ValidatedWith(o, made) ==
    LET useDynamic == o.KustomizeBuildPath # <<>> \/ o.KustomizeBuildValues # <<>>
        useLegacy == o.Service # <<>> \/ Len(o.Environments) > 0
    IN  IF o.RunMode \notin {"github", "local"}
        THEN [err |-> "run-mode must be 'github' or 'local'", opts |-> o]
        ELSE IF useDynamic /\ useLegacy
        THEN [err |-> "cannot mix legacy flags with new flags", opts |-> o]
        ELSE IF ~useDynamic /\ ~useLegacy
        THEN [err |-> "must provide either new flags or legacy flags",
              opts |-> o]
        ELSE IF useDynamic /\ o.KustomizeBuildPath = <<>>
        THEN [err |-> "--kustomize-build-path is required when using dynamic paths",
              opts |-> o]
        ELSE IF useDynamic /\ o.KustomizeBuildValues = <<>>
        THEN [err |-> "--kustomize-build-values is required when using dynamic paths",
              opts |-> o]
        ELSE IF useDynamic /\ made.err # "nil"
        THEN [err |-> "invalid kustomize build configuration",
              opts |-> made.opts]
        ELSE IF useLegacy /\ o.Service = <<>>
        THEN [err |-> "--service is required when using legacy flags",
              opts |-> o]
        ELSE IF useLegacy /\ Len(o.Environments) = 0
        THEN [err |-> "--environments is required when using legacy flags",
              opts |-> o]
        ELSE IF /\ o.RunMode = "local"
                /\ (o.LcBeforeManifestsPath = <<>> \/ o.LcAfterManifestsPath = <<>>)
        THEN [err |-> "local mode requires --lc-before-manifests-path and --lc-after-manifests-path",
              opts |-> IF useDynamic THEN made.opts ELSE o]
        ELSE [err |-> "nil", opts |-> IF useDynamic THEN made.opts ELSE o]

\* validateOptions of a local or github run, without the flags that only
\* the github mode reads
validateOptions(o) == ValidatedWith(o, InitializePathBuilder(o))

\* the start of a run: validateOptions and, when it passes, createRunner
\* with its new evaluator
ValidateOptions ==
    /\ proc.options = "given"
    /\ pc = "idle"
    /\ \E v \in {validateOptions(opts)} :
          /\ opts' = v.opts
          /\ IF v.err # "nil"
             THEN /\ proc' = [proc EXCEPT !.options = "invalid", !.err = v.err]
                  /\ UNCHANGED pc
             ELSE /\ proc' = [proc EXCEPT !.options = "valid"]
                  /\ pc' = "new"
    /\ UNCHANGED <<disk, e, loadErr, ghComments, now, levels>>
    /\ UNCHANGED <<pathVars, evalVars, tree>>

\* RunnerLocal.buildReportData, without the diffs and the timestamp
buildReportData(o, rs) ==
    LET reportData == [Service |-> <<>>, Environments |-> <<>>,
                       OverlayKeys |-> <<>>, KustomizeBuildPath |-> <<>>,
                       KustomizeBuildValues |-> <<>>,
                       ParsedKustomizeBuildValues |-> <<>>]
    IN  IF UseLocalDynamicPaths(o)
        THEN [reportData EXCEPT
                 !.KustomizeBuildValues = o.KustomizeBuildValues,
                 !.OverlayKeys = rs.OverlayKeys,
                 !.Environments = rs.OverlayKeys,
                 !.ParsedKustomizeBuildValues =
                     IF o.BeforePathBuilder # NoPathBuilder
                     THEN o.BeforePathBuilder.Variables
                     ELSE IF o.AfterPathBuilder # NoPathBuilder
                     THEN o.AfterPathBuilder.Variables
                     ELSE <<>>]
        ELSE IF UseDynamicPaths(o)
        THEN [reportData EXCEPT
                 !.KustomizeBuildPath = o.KustomizeBuildPath,
                 !.KustomizeBuildValues = o.KustomizeBuildValues,
                 !.OverlayKeys = rs.OverlayKeys,
                 !.Environments = rs.OverlayKeys,
                 !.ParsedKustomizeBuildValues =
                     IF o.PathBuilder # NoPathBuilder
                     THEN o.PathBuilder.Variables ELSE <<>>]
        ELSE [reportData EXCEPT
                 !.Service = o.Service,
                 !.Environments = o.Environments,
                 !.OverlayKeys = o.Environments]

\* RunnerLocal.Process on the initialized runner: the builds, then the
\* evaluation with no comments, then the report.  A later run of the program
\* on the same inputs is one more Process step.
ProcessUnder(cancel) ==
    /\ pc \in {"loaded", "evaluated"}
    /\ \E rs \in ProcessBuilds(opts, Checkout(tree, cancel)) :
          IF rs.err # "nil"
          THEN /\ proc' = [proc EXCEPT !.called = TRUE, !.err = rs.err,
                                       !.report = NoReport,
                                       !.cancel = cancel]
               /\ build' = NoBuild
               /\ evaluation' = NoEvaluation
               /\ UNCHANGED <<pc, levels>>
          ELSE \E order \in [DOMAIN rs.build.EnvManifestBuild ->
                                Orders(DOMAIN e.Policies)] :
                  /\ proc' = [proc EXCEPT
                                !.called = TRUE, !.err = "nil",
                                !.report = buildReportData(opts, rs.build),
                                !.cancel = cancel]
                  /\ build' = rs.build
                  /\ levels' = DetermineEnforcementLevel(e, <<>>, now)
                  /\ evaluation' =
                        CraftPolicyEvaluation(e, rs.build, levels',
                                              Conftest(feed, cancel), order)
                  /\ pc' = "evaluated"
    /\ UNCHANGED <<disk, e, loadErr, ghComments, now, feed, evalErr>>
    /\ UNCHANGED <<pathVars, opts, tree>>

\* RunnerLocal.Process under a context that is never cancelled
Process == ProcessUnder(NeverCancelled)

\* the call of RunnerLocal.Process that run() makes, under a context that
\* is cancelled on the way
ProcessCancelled ==
    /\ ~proc.called
    /\ \E cancel \in Cancellations : ProcessUnder(cancel)

(***************************************************************************)
(* Specifications.                                                         *)
(***************************************************************************)
\* the path template engine on every template and binding of the bounds
InitPath ==
    /\ pb \in [Template : Templates, Variables : Bindings]
    /\ paths = NoPaths
    /\ decl = NoDeclaration
    /\ PolicyIdle
    /\ EvalIdle
    /\ RunIdle

NextPath == GenerateAllPaths

SpecPath == InitPath /\ [][NextPath]_vars

\* the path builder made from a template and a declaration
InitParse ==
    /\ pb = [Template |-> <<>>, Variables |-> <<>>]
    /\ paths = NoPaths
    /\ decl \in [template : {<<"[", "A", "]">>}, valuesStr : Declarations,
                 state : {"pending"}, err : {"nil"}]
               \cup
               {[template |-> ExampleTemplate, valuesStr |-> ExampleValues,
                 state |-> "pending", err |-> "nil"]}
    /\ PolicyIdle
    /\ EvalIdle
    /\ RunIdle

NextParse == NewPathBuilder \/ GenerateAllPaths

SpecParse == InitParse /\ [][NextParse]_vars

\* the classifier on every schedule of the bounds
InitClassify ==
    /\ PathIdle
    /\ disk \in [readable : {TRUE}, doc : Docs(ScheduledPolicies),
                 files : {{RegoFile, RegoTestFile}}]
    /\ e = NewPolicyEvaluator
    /\ pc = "new"
    /\ loadErr = NoError
    /\ ghComments = <<>>
    /\ now = 0
    /\ levels = <<>>
    /\ EvalIdle
    /\ RunIdle

NextClassify == LoadAndValidate \/ CallDetermineEnforcementLevel

SpecClassify == InitClassify /\ [][NextClassify]_vars

\* two calls of LoadAndValidate on one evaluator
NextReload == LoadAndValidate \/ LoadAndValidateAgain

SpecReload == InitClassify /\ [][NextReload]_vars

\* the evaluator on builds of two overlays
InitMatrix ==
    /\ PathIdle
    /\ disk \in [readable : {TRUE}, doc : [PolicyIds -> MatrixPolicies],
                 files : {{RegoFile, RegoTestFile}}]
    /\ e = NewPolicyEvaluator
    /\ pc = "new"
    /\ loadErr = NoError
    /\ ghComments = <<>>
    /\ now = 0
    /\ levels = <<>>
    /\ build \in [EnvManifestBuild : [Overlays -> BuildEnvManifestResults],
                  OverlayKeys : {<< <<"a">>, <<"b">> >>}]
    /\ feed = <<>>
    /\ evaluation = NoEvaluation
    /\ evalErr = NoError
    /\ RunIdle

NextMatrix == LoadAndValidate \/ GeneratePolicyEvalResultForManifests

SpecMatrix == InitMatrix /\ [][NextMatrix]_vars

\* a local run on every invocation, checkout and conftest outcome of the
\* bounds, before validateOptions
InitRun ==
    /\ PathIdle
    /\ disk \in RunDisks
    /\ e = NewPolicyEvaluator
    /\ pc = "idle"
    /\ loadErr = NoError
    /\ ghComments = <<>>
    /\ now \in {0, MaxTime}
    /\ levels = <<>>
    /\ build = NoBuild
    /\ feed \in RunFeeds
    /\ evaluation = NoEvaluation
    /\ evalErr = NoError
    /\ opts \in Options
    /\ tree \in [BuildPaths(opts) -> {"overlay", "absent"}]
    /\ proc = NoRun

NextRun == ValidateOptions \/ LoadAndValidate \/ Process

SpecRun == InitRun /\ [][NextRun]_vars

\* one run with a configuration that loads, under a context that may be
\* cancelled during Process
InitCancel ==
    /\ InitRun
    /\ disk.doc = GoodDoc
    /\ disk.files = {RegoFile, RegoTestFile}

NextCancel == ValidateOptions \/ LoadAndValidate \/ ProcessCancelled

SpecCancel == InitCancel /\ [][NextCancel]_vars

(***************************************************************************)
(* Claims about the path template engine, checked under SpecPath.          *)
(***************************************************************************)
TemplateVars == ParseTemplate(pb.Template)

\* every placeholder of the template is bound to a list of at least one value
AllBound ==
    \A i \in 1..Len(TemplateVars) :
        /\ TemplateVars[i] \in DOMAIN pb.Variables
        /\ Len(pb.Variables[TemplateVars[i]]) >= 1

\* the size of the value list of the j-th template variable
Size(j) == Len(pb.Variables[TemplateVars[j]])

\* Size(j) * ... * Size(n)
RECURSIVE ProductFrom(_)
ProductFrom(j) ==
    IF j > Len(TemplateVars) THEN 1 ELSE Size(j) * ProductFrom(j + 1)

PairwiseDistinct(seq) ==
    \A i, j \in 1..Len(seq) : i # j => seq[i] # seq[j]

NoRepeatedValue ==
    \A j \in 1..Len(TemplateVars) : PairwiseDistinct(pb.Variables[TemplateVars[j]])

Digit(m, j) == (m \div ProductFrom(j + 1)) % Size(j)

C14_NoVariableIdentity ==
    (paths.called /\ Len(TemplateVars) = 0) =>
        /\ paths.err = "nil"
        /\ Len(paths.combos) = 1
        /\ paths.combos[1].Path = pb.Template
        /\ paths.combos[1].OverlayKey = pb.Template

(* C14 amended: that holds for every template without a placeholder that   *)
(* is not the empty string; for the empty template GenerateAllPaths        *)
(* returns the error of Validate and no combination.                       *)
C14_NonEmptyNoVariableIdentity ==
    (paths.called /\ Len(TemplateVars) = 0) =>
        IF pb.Template = <<>>
        THEN /\ paths.err = "template cannot be empty"
             /\ paths.combos = <<>>
        ELSE /\ paths.err = "nil"
             /\ Len(paths.combos) = 1
             /\ paths.combos[1].Path = pb.Template
             /\ paths.combos[1].OverlayKey = pb.Template
             /\ paths.combos[1].Values = <<>>

\* a template of plain characters came back as the only combination although
\* the bindings hold a name with no value
C14_Witness ==
    /\ paths.called
    /\ Len(TemplateVars) = 0
    /\ Len(pb.Template) >= 2
    /\ \E n \in DOMAIN pb.Variables : pb.Variables[n] = <<>>
    /\ Len(paths.combos) = 1
    /\ paths.combos[1].OverlayKey = pb.Template

\* the builder with only the bindings of the names the template holds
WithoutUnusedBindings ==
    [Template |-> pb.Template,
     Variables |-> [n \in DOMAIN pb.Variables \cap Range(TemplateVars) |->
                       pb.Variables[n]]]

BindingErrors == {"has no values defined", "has empty values"}

(* C16: GenerateAllPaths on a non-empty template fails in Validate, with   *)
(* no combination, exactly when a placeholder of the template has no       *)
(* binding or an empty value list; bindings of names the template does not *)
(* hold change nothing: the result is one the builder without them gives.  *)
C16_ValidateBindings ==
    (paths.called /\ pb.Template # <<>>) =>
        /\ ~AllBound => (paths.err \in BindingErrors /\ paths.combos = <<>>)
        /\ AllBound => paths.err \notin BindingErrors
        /\ [err |-> paths.err, combos |-> paths.combos,
            unresolved |-> paths.unresolved]
              \in GenerateAllPathsResults(WithoutUnusedBindings)

\* a run succeeded with both values of its only placeholder although a
\* name the template does not hold is bound to no value
C16_Witness ==
    /\ paths.called
    /\ Len(TemplateVars) = 1
    /\ \E n \in DOMAIN pb.Variables :
          n \notin Range(TemplateVars) /\ pb.Variables[n] = <<>>
    /\ paths.err = "nil"
    /\ Len(paths.combos) = 2

\* whether old occurs somewhere in s
Occurs(s, old) == \E at \in 1..Len(s) : OccursAt(s, old, at)

(* C18: no returned path holds a token of the shape [NAME]; when a token   *)
(* is left after the replacements GenerateAllPaths returns the error that  *)
(* names the leftover tokens and no combination at all, so the list it     *)
(* returns is either complete or empty.                                    *)
C18_NoPartialResolution ==
    paths.called =>
        /\ \A i \in 1..Len(paths.combos) : ~MatchString(paths.combos[i].Path)
        /\ paths.err = "unresolved variables in path" =>
              /\ paths.combos = <<>>
              /\ paths.unresolved # <<>>
              /\ \A i \in 1..Len(paths.unresolved) :
                    /\ MatchString(paths.unresolved[i])
                    /\ \/ Occurs(pb.Template, paths.unresolved[i])
                       \/ \E n \in Range(TemplateVars) :
                             \E k \in 1..Len(pb.Variables[n]) :
                                Occurs(pb.Variables[n][k], paths.unresolved[i])
        /\ paths.err # "unresolved variables in path" => paths.unresolved = <<>>
        /\ (paths.err = "nil" /\ Len(TemplateVars) >= 1) =>
              Len(paths.combos) = ProductFrom(1)

\* the first value of the only placeholder resolves and the second leaves a
\* token: the call returned the error and not the first path
C18_Witness ==
    /\ paths.called
    /\ Len(TemplateVars) = 1
    /\ TemplateVars[1] \in DOMAIN pb.Variables
    /\ Size(1) = 2
    /\ ~MatchString(pb.Variables[TemplateVars[1]][1])
    /\ MatchString(pb.Variables[TemplateVars[1]][2])
    /\ paths.err = "unresolved variables in path"
    /\ paths.combos = <<>>
    /\ paths.unresolved = <<pb.Variables[TemplateVars[1]][2]>>

(***************************************************************************)
(* Claims about NewPathBuilder, checked under SpecParse.                   *)
(***************************************************************************)
Parsed == decl.state \in {"made", "failed"}

\* the tokens of the declaration between its semicolons
Tokens == Split(decl.valuesStr, ";")

Blank(token) == TrimSpace(token) = <<>>

NoEquals(token) == \A i \in 1..Len(token) : token[i] # "="

EmptyKey(token) ==
    ~NoEquals(token) /\ TrimSpace(SplitN2(token, "=")[1]) = <<>>

EmptyValueList(token) ==
    ~NoEquals(token) /\ TrimSpace(SplitN2(token, "=")[2]) = <<>>

Malformed(token) == NoEquals(token) \/ EmptyKey(token) \/ EmptyValueList(token)

\* the tokens ParseValues has to reject
Rejected == {i \in 1..Len(Tokens) : ~Blank(Tokens[i]) /\ Malformed(Tokens[i])}

(* C17 as stated: ParseValues returns a parse error and no bindings for    *)
(* every declaration in which some token between semicolons has no "=",    *)
(* an empty key or an empty value list.                                    *)
C17_RejectsMalformed ==
    (Parsed /\ \E i \in 1..Len(Tokens) : Malformed(Tokens[i])) =>
        /\ decl.state = "failed"
        /\ pb.Variables = <<>>

(* C17 amended: ParseValues returns a parse error and no bindings exactly  *)
(* for the declarations in which some token that is not blank has no "=",  *)
(* an empty key or an empty value list; the error is the one of the first  *)
(* such token, and blank tokens are passed over.                           *)
C17_RejectsMalformedNonBlank ==
    Parsed =>
        /\ decl.state = "failed" <=> Rejected # {}
        /\ decl.state = "failed" =>
              LET first == CHOOSE i \in Rejected : \A j \in Rejected : i <= j
              IN  /\ pb.Variables = <<>>
                  /\ decl.err =
                        IF NoEquals(Tokens[first]) THEN "invalid token format"
                        ELSE IF EmptyKey(Tokens[first]) THEN "empty key in token"
                        ELSE "empty value for key"
        /\ decl.state = "made" => decl.err = "nil"

\* the first token binds a key to a value and the second, which is not
\* blank, has no "="
C17_Witness ==
    /\ decl.state = "failed"
    /\ Len(Tokens) = 2
    /\ ~Malformed(Tokens[1])
    /\ ~Blank(Tokens[2])
    /\ NoEquals(Tokens[2])
    /\ decl.err = "invalid token format"
    /\ pb.Variables = <<>>

IsExample ==
    /\ decl.template = ExampleTemplate
    /\ decl.valuesStr = ExampleValues

OverlayKeysOf(combos) == [i \in 1..Len(combos) |-> combos[i].OverlayKey]

Enforcement(id) == e.Policies[id].Enforcement

\* the policy's override comment is not empty and is one of the comments
OverrideObserved(id) ==
    /\ Enforcement(id).Override.Comment # <<>>
    /\ \E i \in 1..Len(ghComments) :
          ghComments[i] = Enforcement(id).Override.Comment

\* the threshold is present and now is not before it
Satisfied(threshold) == threshold # NoTime /\ now >= threshold

\* C3: a policy whose non-empty override comment equals one of the observed
\* comments gets level OVERRIDE, whatever its schedule says.
C3_OverrideSupremacy ==
    pc = "classified" =>
        \A id \in DOMAIN e.Policies :
            OverrideObserved(id) => levels[id] = POLICY_LEVEL_OVERRIDE

\* a policy whose schedule alone gives BLOCK was overridden
C3_Witness ==
    /\ pc = "classified"
    /\ \E id \in DOMAIN e.Policies :
          /\ OverrideObserved(id)
          /\ ScheduleLevel(Enforcement(id), now) = POLICY_LEVEL_BLOCK
          /\ levels[id] = POLICY_LEVEL_OVERRIDE

\* C4 as stated: with no override observed, inEffectAfter present and now
\* before it, the level is NOT_IN_EFFECT whatever isWarningAfter and
\* isBlockingAfter are.
C4_NotInEffectStops ==
    pc = "classified" =>
        \A id \in DOMAIN e.Policies :
            (/\ ~OverrideObserved(id)
             /\ Enforcement(id).InEffectAfter # NoTime
             /\ now < Enforcement(id).InEffectAfter)
            => levels[id] = POLICY_LEVEL_NOT_IN_EFFECT

\* C5 as stated: with no override observed and inEffectAfter absent, the
\* level is UNKNOWN whatever isWarningAfter and isBlockingAfter are.
C5_NoInEffectIsUnknown ==
    pc = "classified" =>
        \A id \in DOMAIN e.Policies :
            (/\ ~OverrideObserved(id)
             /\ Enforcement(id).InEffectAfter = NoTime)
            => levels[id] = POLICY_LEVEL_UNKNOWN

LoadReturned == pc \in {"loaded", "loadFailed", "classified"}

WarnsEarly(id) ==
    LET enf == disk.doc[id].Enforcement
    IN  /\ enf.InEffectAfter # NoTime
        /\ enf.IsWarningAfter # NoTime
        /\ enf.IsWarningAfter < enf.InEffectAfter

BlocksEarly(id) ==
    LET enf == disk.doc[id].Enforcement
    IN  /\ enf.IsWarningAfter # NoTime
        /\ enf.IsBlockingAfter # NoTime
        /\ enf.IsBlockingAfter < enf.IsWarningAfter

OutOfOrder == {id \in DOMAIN disk.doc : WarnsEarly(id) \/ BlocksEarly(id)}

OrderErrors ==
    {"isWarningAfter cannot be before inEffectAfter",
     "isBlockingAfter cannot be before isWarningAfter"}

(* C19: LoadAndValidate fails on every document in which some policy has   *)
(* isWarningAfter before inEffectAfter or isBlockingAfter before           *)
(* isWarningAfter, with an error that names such a policy and the          *)
(* threshold that is early; thresholds that are equal are no such error.   *)
C19_ScheduleOrderEnforced ==
    LoadReturned =>
        /\ OutOfOrder # {} =>
              /\ pc = "loadFailed"
              /\ loadErr.id \in OutOfOrder
              /\ loadErr.kind =
                    IF WarnsEarly(loadErr.id)
                    THEN "isWarningAfter cannot be before inEffectAfter"
                    ELSE "isBlockingAfter cannot be before isWarningAfter"
        /\ OutOfOrder = {} => loadErr.kind \notin OrderErrors

\* of two policies one has its three thresholds at the same instant and the
\* other blocks before it warns: the load failed and named the second
C19_Witness ==
    /\ pc = "loadFailed"
    /\ \E good \in DOMAIN disk.doc, bad \in DOMAIN disk.doc :
          /\ disk.doc[good].Enforcement.InEffectAfter = MaxTime
          /\ disk.doc[good].Enforcement.IsWarningAfter = MaxTime
          /\ disk.doc[good].Enforcement.IsBlockingAfter = MaxTime
          /\ BlocksEarly(bad)
          /\ ~WarnsEarly(bad)
          /\ loadErr = Error("isBlockingAfter cannot be before isWarningAfter", bad)

\* the policies of the document that declare this override phrase
Declaring(phrase) ==
    {id \in DOMAIN disk.doc : disk.doc[id].Enforcement.Override.Comment = phrase}

SharedPhrases ==
    {ph \in Phrases \ {<<>>} : Cardinality(Declaring(ph)) >= 2}

(* C20: LoadAndValidate fails on every document in which two policies      *)
(* declare the same non-empty override phrase, naming one of the two when  *)
(* nothing else is wrong with the document; after a successful load every  *)
(* non-empty phrase of the document maps to the one policy declaring it.   *)
C20_OverridePhrasesUnique ==
    LoadReturned =>
        /\ SharedPhrases # {} =>
              /\ pc = "loadFailed"
              /\ OutOfOrder = {} =>
                    /\ loadErr.kind = "this override command already exists"
                    /\ \E ph \in SharedPhrases : loadErr.id \in Declaring(ph)
        /\ pc # "loadFailed" =>
              /\ SharedPhrases = {}
              /\ DOMAIN e.overrideCmdToPolicyId =
                    {ph \in Phrases \ {<<>>} : Declaring(ph) # {}}
              /\ \A ph \in DOMAIN e.overrideCmdToPolicyId :
                    Declaring(ph) = {e.overrideCmdToPolicyId[ph]}

\* two policies with schedules in order declare the same phrase, and the
\* load failed on the one it met second
C20_Witness ==
    /\ pc = "loadFailed"
    /\ OutOfOrder = {}
    /\ Cardinality(DOMAIN disk.doc) = 2
    /\ SharedPhrases = {<<"/", "a">>}
    /\ loadErr.kind = "this override command already exists"
    /\ e.overrideCmdToPolicyId[<<"/", "a">>] # loadErr.id

(***************************************************************************)
(* Claims about the policy matrix, checked under SpecMatrix.               *)
(***************************************************************************)
Evaluated == pc = "evaluated" /\ evalErr = NoError

Envs == DOMAIN build.EnvManifestBuild

Skipped(env) == build.EnvManifestBuild[env].Skipped

Matrix(env) == evaluation.PolicyMatrix[env]

Counts(env) == evaluation.EnvironmentSummary[env].PolicyCounts

Gates(env) == evaluation.EnvironmentSummary[env].PassingStatus

\* the number of results of a bucket that have this status
InBucket(bucket, status) ==
    Cardinality({i \in DOMAIN bucket : bucket[i].EvaluationStatus = status})

\* the bucket of the matrix that holds the policies of a level
BucketOf(env, level) ==
    CASE level = POLICY_LEVEL_BLOCK -> Matrix(env).BlockingPolicies
      [] level = POLICY_LEVEL_WARNING -> Matrix(env).WarningPolicies
      [] level = POLICY_LEVEL_RECOMMEND -> Matrix(env).RecommendPolicies
      [] level = POLICY_LEVEL_OVERRIDE -> Matrix(env).OverriddenPolicies
      [] level = POLICY_LEVEL_NOT_IN_EFFECT -> Matrix(env).NotInEffectPolicies
      [] OTHER -> <<>>

BucketLevels ==
    {POLICY_LEVEL_BLOCK, POLICY_LEVEL_WARNING, POLICY_LEVEL_RECOMMEND,
     POLICY_LEVEL_OVERRIDE, POLICY_LEVEL_NOT_IN_EFFECT}

\* the positions of a policy in a bucket
Places(bucket, id) == {i \in DOMAIN bucket : bucket[i].PolicyId = id}

\* what one run of conftest amounts to
Outcome(run) ==
    IF run.cmdErr = "ExitError" /\ run.exitCode # 1 THEN "error"
    ELSE IF run.stdout = "failures" THEN "fail"
    ELSE IF run.stdout = "no failures" THEN "pass"
    ELSE "error"

\* the policies of a level whose run on env had this outcome
WithOutcome(env, level, outcome) ==
    {id \in DOMAIN e.Policies :
        levels[id] = level /\ Outcome(feed[env][id]) = outcome}

(* C7: each gate of an overlay is true exactly when its own bucket holds   *)
(* no failed and no errored policy, which is also when the failed and the  *)
(* errored count of that bucket are both zero; the overridden and the      *)
(* not-in-effect bucket play no part in any gate.                          *)
C7_GatesFollowOwnBucket ==
    Evaluated =>
        \A env \in Envs :
            /\ Gates(env).PassBlockingCheck =
                  (/\ InBucket(Matrix(env).BlockingPolicies, "fail") = 0
                   /\ InBucket(Matrix(env).BlockingPolicies, "error") = 0)
            /\ Gates(env).PassBlockingCheck =
                  (/\ Counts(env).BlockingFailedCount = 0
                   /\ Counts(env).BlockingErroredCount = 0)
            /\ Gates(env).PassWarningCheck =
                  (/\ InBucket(Matrix(env).WarningPolicies, "fail") = 0
                   /\ InBucket(Matrix(env).WarningPolicies, "error") = 0)
            /\ Gates(env).PassWarningCheck =
                  (/\ Counts(env).WarningFailedCount = 0
                   /\ Counts(env).WarningErroredCount = 0)
            /\ Gates(env).PassRecommendCheck =
                  (/\ InBucket(Matrix(env).RecommendPolicies, "fail") = 0
                   /\ InBucket(Matrix(env).RecommendPolicies, "error") = 0)
            /\ Gates(env).PassRecommendCheck =
                  (/\ Counts(env).RecommendFailedCount = 0
                   /\ Counts(env).RecommendErroredCount = 0)

\* on one overlay the overridden policy failed and the blocking policy
\* passed, so every gate is true; on the other overlay the overridden
\* policy failed too and the blocking policy errored, so the blocking
\* gate alone is false
C7_Witness ==
    /\ Evaluated
    /\ \E env \in Envs :
          /\ InBucket(Matrix(env).OverriddenPolicies, "fail") = 1
          /\ InBucket(Matrix(env).BlockingPolicies, "pass") = 1
          /\ Gates(env).PassBlockingCheck
          /\ Gates(env).PassWarningCheck
          /\ Gates(env).PassRecommendCheck
    /\ \E env \in Envs :
          /\ InBucket(Matrix(env).OverriddenPolicies, "fail") = 1
          /\ InBucket(Matrix(env).BlockingPolicies, "error") = 1
          /\ InBucket(Matrix(env).BlockingPolicies, "fail") = 0
          /\ ~Gates(env).PassBlockingCheck
          /\ Gates(env).PassWarningCheck

(* C8: for a skipped overlay every configured policy is recorded as        *)
(* passing whatever conftest would have said: every policy with a level is *)
(* in its bucket with status pass, the total and the success count are the *)
(* number of policies, no failed or errored count is above zero, and the   *)
(* three gates are true.                                                   *)
C8_SkipVacuity ==
    Evaluated =>
        \A env \in Envs :
            Skipped(env) =>
                /\ \A level \in BucketLevels :
                      /\ \A i \in DOMAIN BucketOf(env, level) :
                            /\ BucketOf(env, level)[i].EvaluationStatus = "pass"
                            /\ BucketOf(env, level)[i].IsPassing
                            /\ BucketOf(env, level)[i].FailMessages = <<>>
                      /\ \A id \in DOMAIN e.Policies :
                            levels[id] = level =>
                                Cardinality(Places(BucketOf(env, level), id)) = 1
                /\ Counts(env).TotalCount = Cardinality(DOMAIN e.Policies)
                /\ Counts(env).TotalSuccess = Cardinality(DOMAIN e.Policies)
                /\ Counts(env).TotalFailed = 0
                /\ Counts(env).TotalErrored = 0
                /\ Counts(env).TotalOmittedFailed = 0
                /\ Counts(env).BlockingFailedCount = 0
                /\ Counts(env).BlockingErroredCount = 0
                /\ Counts(env).WarningFailedCount = 0
                /\ Counts(env).WarningErroredCount = 0
                /\ Counts(env).RecommendFailedCount = 0
                /\ Counts(env).RecommendErroredCount = 0
                /\ Counts(env).OverriddenFailedCount = 0
                /\ Counts(env).OverriddenErroredCount = 0
                /\ Counts(env).NotInEffectFailedCount = 0
                /\ Counts(env).NotInEffectErroredCount = 0
                /\ Gates(env).PassBlockingCheck
                /\ Gates(env).PassWarningCheck
                /\ Gates(env).PassRecommendCheck

\* a skipped overlay on which a blocking policy would have failed and a
\* warning policy would have errored
C8_Witness ==
    /\ Evaluated
    /\ \E env \in Envs :
          /\ Skipped(env)
          /\ WithOutcome(env, POLICY_LEVEL_BLOCK, "fail") # {}
          /\ WithOutcome(env, POLICY_LEVEL_WARNING, "error") # {}
          /\ Len(Matrix(env).BlockingPolicies) = 1
          /\ Len(Matrix(env).WarningPolicies) = 1

\* every policy with a level is once in the bucket of its level and in no
\* other bucket, and a policy without a level is in no bucket
OneBucketEach(env) ==
    \A id \in DOMAIN e.Policies :
        \A level \in BucketLevels :
            Cardinality(Places(BucketOf(env, level), id)) =
                IF levels[id] = level THEN 1 ELSE 0

\* the policies that have a level
Levelled == {id \in DOMAIN e.Policies : levels[id] # POLICY_LEVEL_UNKNOWN}

(* C9: for an overlay that is not skipped every policy with a level is in  *)
(* exactly the bucket of its level, and a policy of level UNKNOWN is in no *)
(* bucket and in none of TotalCount, TotalSuccess, TotalFailed and         *)
(* TotalErrored.                                                           *)
C9_UnknownIsNotCounted ==
    Evaluated =>
        \A env \in Envs :
            ~Skipped(env) =>
                /\ OneBucketEach(env)
                /\ Counts(env).TotalCount = Cardinality(Levelled)
                /\ Counts(env).TotalSuccess =
                      Cardinality({id \in Levelled : Outcome(feed[env][id]) = "pass"})
                /\ Counts(env).TotalFailed =
                      Cardinality({id \in Levelled : Outcome(feed[env][id]) = "fail"})
                /\ Counts(env).TotalErrored =
                      Cardinality({id \in Levelled : Outcome(feed[env][id]) = "error"})

(* C10: an errored run of conftest does not end the evaluation, and what   *)
(* is recorded for a policy on an overlay that is not skipped is the       *)
(* outcome of its own run there, whatever the other runs did: each bucket  *)
(* holds its policies with the status of their own run, the errored count  *)
(* of the bucket is the number of its errored runs and the failed count    *)
(* the number of its failed runs, and no errored run adds to TotalFailed.  *)
C10_ErrorIsolation ==
    Evaluated =>
        \A env \in Envs :
            ~Skipped(env) =>
                /\ \A id \in Levelled :
                      \A i \in Places(BucketOf(env, levels[id]), id) :
                          /\ BucketOf(env, levels[id])[i].EvaluationStatus =
                                Outcome(feed[env][id])
                          /\ BucketOf(env, levels[id])[i].IsPassing =
                                (Outcome(feed[env][id]) = "pass")
                /\ \A id \in Levelled :
                      Cardinality(Places(BucketOf(env, levels[id]), id)) = 1
                /\ \A level \in BucketLevels :
                      /\ InBucket(BucketOf(env, level), "error") =
                            Cardinality(WithOutcome(env, level, "error"))
                      /\ InBucket(BucketOf(env, level), "fail") =
                            Cardinality(WithOutcome(env, level, "fail"))
                /\ Counts(env).BlockingErroredCount =
                      Cardinality(WithOutcome(env, POLICY_LEVEL_BLOCK, "error"))
                /\ Counts(env).BlockingFailedCount =
                      Cardinality(WithOutcome(env, POLICY_LEVEL_BLOCK, "fail"))
                /\ Counts(env).WarningErroredCount =
                      Cardinality(WithOutcome(env, POLICY_LEVEL_WARNING, "error"))
                /\ Counts(env).WarningFailedCount =
                      Cardinality(WithOutcome(env, POLICY_LEVEL_WARNING, "fail"))
                /\ Counts(env).RecommendErroredCount =
                      Cardinality(WithOutcome(env, POLICY_LEVEL_RECOMMEND, "error"))
                /\ Counts(env).RecommendFailedCount =
                      Cardinality(WithOutcome(env, POLICY_LEVEL_RECOMMEND, "fail"))
                /\ Counts(env).TotalErrored >=
                      Cardinality({id \in Levelled :
                                      Outcome(feed[env][id]) = "error"})
                /\ Counts(env).TotalFailed <=
                      Cardinality({id \in DOMAIN e.Policies :
                                      Outcome(feed[env][id]) = "fail"})

\* on one overlay a blocking policy errored and a warning policy passed,
\* and on the other overlay the same blocking policy failed
C10_Witness ==
    /\ Evaluated
    /\ \E env \in Envs, other \in Envs, id \in DOMAIN e.Policies :
          /\ env # other
          /\ ~Skipped(env)
          /\ ~Skipped(other)
          /\ id \in WithOutcome(env, POLICY_LEVEL_BLOCK, "error")
          /\ WithOutcome(env, POLICY_LEVEL_WARNING, "pass") # {}
          /\ id \in WithOutcome(other, POLICY_LEVEL_BLOCK, "fail")
          /\ Counts(env).BlockingErroredCount = 1
          /\ Counts(env).BlockingFailedCount = 0
          /\ Counts(env).WarningSuccessCount = 1
          /\ Counts(other).BlockingFailedCount = 1

\* the place of a policy in the declaration order of the document
DeclaredAt(id) == CHOOSE i \in 1..Len(Declaration) : Declaration[i] = id

(* C13: in every bucket of every overlay's matrix the policy results come  *)
(* in the order in which the configuration document declares the policies. *)
C13_DeclarationOrder ==
    Evaluated =>
        \A env \in Envs :
            \A level \in BucketLevels :
                \A i, j \in DOMAIN BucketOf(env, level) :
                    i < j => DeclaredAt(BucketOf(env, level)[i].PolicyId)
                                < DeclaredAt(BucketOf(env, level)[j].PolicyId)


(***************************************************************************)
(* Claims about the runner, checked under SpecRun.                         *)
(***************************************************************************)
Processed == proc.called

\* the overlay directory of a key on one side, the empty path when a
\* template of the local separate mode does not produce the key
SidePath(side, key) ==
    LET root == IF side = "before" THEN BeforeRoot ELSE AfterRoot
        builder == IF side = "before" THEN opts.BeforePathBuilder
                   ELSE opts.AfterPathBuilder
        g == CHOOSE r \in GenerateAllPathsResults(builder) : TRUE
        at == {j \in DOMAIN g.combos : g.combos[j].OverlayKey = key}
    IN  IF UseLocalDynamicPaths(opts)
        THEN IF at = {} THEN <<>> ELSE g.combos[CHOOSE j \in at : TRUE].Path
        ELSE IF UseDynamicPaths(opts) THEN FilepathJoin(root, key)
        ELSE FilepathJoin(FilepathJoin(FilepathJoin(root, opts.Service),
                                       KUSTOMIZE_OVERLAY_DIR_NAME), key)

Absent(side, key) == tree[SidePath(side, key)] = "absent"

OneSideAbsent(key) == Absent("before", key) # Absent("after", key)

BothSidesAbsent(key) == Absent("before", key) /\ Absent("after", key)

\* the overlay keys of the last build
BuiltKeys == {build.OverlayKeys[i] : i \in DOMAIN build.OverlayKeys}

\* every configured policy is recorded as passing for the overlay
AllPass(env) ==
    /\ \A level \in BucketLevels :
          \A i \in DOMAIN BucketOf(env, level) :
              /\ BucketOf(env, level)[i].EvaluationStatus = "pass"
              /\ BucketOf(env, level)[i].IsPassing
    /\ \A id \in DOMAIN e.Policies :
          Cardinality(Places(BucketOf(env, levels[id]), id)) = 1
    /\ Counts(env).TotalSuccess = Cardinality(DOMAIN e.Policies)
    /\ Counts(env).TotalFailed = 0
    /\ Counts(env).TotalErrored = 0

\* every configured policy is recorded with what conftest said of the overlay
AsConftestSaid(env) ==
    \A id \in DOMAIN e.Policies :
        /\ Cardinality(Places(BucketOf(env, levels[id]), id)) = 1
        /\ \A i \in Places(BucketOf(env, levels[id]), id) :
              BucketOf(env, levels[id])[i].EvaluationStatus
                 = Outcome(feed[env][id])

\* the reason recorded for an overlay skipped with one template for both sides
SharedSkipReason(key) ==
    IF Absent("before", key) THEN "overlay not found in before path"
    ELSE "overlay not found in after path"

SecondRun ==
    /\ Processed /\ proc.err = "nil"
    /\ proc'.called /\ proc'.err = "nil"

(* C12: a run on the options, checkout, compliance configuration, time,    *)
(* comments and conftest outcomes of the run before it produces the same   *)
(* sequence of overlay keys and the same matrix for every overlay, the     *)
(* order of the results inside each bucket included.                       *)
C12_Determinism ==
    [][SecondRun =>
          /\ build'.OverlayKeys = build.OverlayKeys
          /\ evaluation'.PolicyMatrix = evaluation.PolicyMatrix]_vars


\* the overlay keys of the combinations of one PathBuilder of the options
TemplateKeys(builder) ==
    LET g == CHOOSE r \in GenerateAllPathsResults(builder) : TRUE
    IN  {g.combos[j].OverlayKey : j \in DOMAIN g.combos}

\* the overlays the options ask for
ExpectedKeys ==
    IF UseLocalDynamicPaths(opts)
    THEN TemplateKeys(opts.BeforePathBuilder)
            \cup TemplateKeys(opts.AfterPathBuilder)
    ELSE IF UseDynamicPaths(opts) THEN TemplateKeys(opts.PathBuilder)
    ELSE {opts.Environments[i] : i \in DOMAIN opts.Environments}

\* a directory of the overlay does not exist
Missing(key) == Absent("before", key) \/ Absent("after", key)

\* the run was aborted by the error of a build
Aborted ==
    /\ proc.err = "environment not found"
    /\ build = NoBuild
    /\ evaluation = NoEvaluation

IsReadmeLocal ==
    /\ opts.RunMode = "local"
    /\ opts.LcBeforeKustomizeBuildPath # <<>>
    /\ opts.LcAfterKustomizeBuildPath # <<>>
    /\ opts.KustomizeBuildValues # <<>>
    /\ opts.KustomizeBuildPath = <<>>
    /\ opts.Service = <<>> /\ opts.Environments = <<>>
    /\ opts.LcBeforeManifestsPath = <<>> /\ opts.LcAfterManifestsPath = <<>>

(* C22: once validateOptions has returned on the local invocation of the   *)
(* README, which gives only the two side templates and the values, the     *)
(* options are valid and the run is one of the local separate mode.        *)
C22_ReadmeLocalInvocation ==
    IsReadmeLocal /\ proc.options # "given" =>
        /\ proc.options = "valid"
        /\ proc.err = "nil"
        /\ UseLocalDynamicPaths(opts)


\* the overlay keys of the combinations of a PathBuilder, as generated
GeneratedKeys(builder) ==
    LET g == CHOOSE r \in GenerateAllPathsResults(builder) : TRUE
    IN  [j \in DOMAIN g.combos |-> g.combos[j].OverlayKey]

\* a run of the shared dynamic mode went through its builds
DynamicBuilt ==
    /\ Processed /\ proc.err = "nil"
    /\ UseDynamicPaths(opts) /\ ~UseLocalDynamicPaths(opts)

LocalDynamicBuilt ==
    /\ Processed /\ proc.err = "nil"
    /\ UseLocalDynamicPaths(opts)

\* the keys of one side's template only
OneSidedKeys ==
    (TemplateKeys(opts.BeforePathBuilder) \ TemplateKeys(opts.AfterPathBuilder))
       \cup
    (TemplateKeys(opts.AfterPathBuilder) \ TemplateKeys(opts.BeforePathBuilder))

\* the keys of the before side as generated, then those of the after side
\* that the before side does not have
UnionInOrder ==
    LET beforeKeys == GeneratedKeys(opts.BeforePathBuilder)
        afterKeys == GeneratedKeys(opts.AfterPathBuilder)
        afterOnly(k) == \A j \in DOMAIN beforeKeys : beforeKeys[j] # k
    IN  beforeKeys \o SelectSeq(afterKeys, afterOnly)

MalformedDeclaration == ParseValues(opts.KustomizeBuildValues).err # "nil"

\* the templates the mode of the options reads
TemplatesRead ==
    IF UseLocalDynamicPaths(opts)
    THEN {opts.LcBeforeKustomizeBuildPath, opts.LcAfterKustomizeBuildPath}
    ELSE {opts.KustomizeBuildPath}

\* the declaration parses and a template has a variable it does not bind
UnboundVariable ==
    LET parsed == ParseValues(opts.KustomizeBuildValues)
    IN  /\ opts.KustomizeBuildValues # <<>>
        /\ parsed.err = "nil"
        /\ \E t \in TemplatesRead : \E i \in 1..Len(ParseTemplate(t)) :
               ParseTemplate(t)[i] \notin DOMAIN parsed.result

\* a policy of the compliance configuration fails a check of its fields,
\* the order of its schedule among them
PolicyRefused == \E id \in PolicyIds : PolicyViolation(disk.doc[id]) # "nil"

ScheduleOutOfOrder ==
    \E id \in PolicyIds :
        PolicyViolation(disk.doc[id]) \in
           {"isWarningAfter cannot be before inEffectAfter",
            "isBlockingAfter cannot be before isWarningAfter"}

\* two policies have the same override phrase
DuplicatePhrase ==
    \E id1, id2 \in PolicyIds :
        /\ id1 # id2
        /\ disk.doc[id1].Enforcement.Override.Comment # <<>>
        /\ disk.doc[id1].Enforcement.Override.Comment =
              disk.doc[id2].Enforcement.Override.Comment

\* the file of a policy, or the file of its tests, is not on disk
MissingPolicyFile ==
    \E id \in PolicyIds :
        \/ disk.doc[id].FilePath \notin disk.files
        \/ TrimSuffix(disk.doc[id].FilePath, DotRego) \o TestRego
              \notin disk.files

ConfigurationError ==
    \/ MalformedDeclaration
    \/ UnboundVariable
    \/ PolicyRefused
    \/ DuplicatePhrase
    \/ MissingPolicyFile

\* the run has returned an error from validateOptions or from Initialize
ReturnedConfigurationError ==
    \/ proc.options = "invalid" /\ proc.err # "nil"
    \/ proc.options = "valid" /\ pc = "loadFailed" /\ loadErr # NoError

(* C26: in a run whose values declaration does not parse, whose template   *)
(* has a variable the declaration does not bind, or whose compliance       *)
(* configuration has a refused policy, a repeated override phrase or a     *)
(* missing policy or test file, Process is never called: nothing is built, *)
(* evaluated or reported, and once the run is past validateOptions and     *)
(* LoadAndValidate it has returned their error.                            *)
C26_ConfigurationErrorsFatal ==
    ConfigurationError =>
       /\ ~proc.called
       /\ build = NoBuild
       /\ evaluation = NoEvaluation
       /\ proc.report = NoReport
       /\ pc \in {"idle", "new", "loadFailed"}
       /\ (proc.options # "given" /\ pc # "new") => ReturnedConfigurationError

\* a run with valid options and a schedule out of order has stopped at
\* LoadAndValidate with nothing built
C26_Witness ==
    /\ ScheduleOutOfOrder
    /\ proc.options = "valid"
    /\ pc = "loadFailed"
    /\ loadErr.kind = "isBlockingAfter cannot be before isWarningAfter"
    /\ ~proc.called /\ build = NoBuild


(***************************************************************************)
(* Claims about a cancelled run, checked under SpecCancel.                 *)
(***************************************************************************)
\* Process was called under a context that was cancelled on the way
CancelledOnTheWay == proc.called /\ proc.cancel.at # "never"

\* the overlays that were built and not yet evaluated at the cancellation
LeftAtCancellation ==
    {env \in DOMAIN build.EnvManifestBuild :
        /\ ~build.EnvManifestBuild[env].Skipped
        /\ env \notin proc.cancel.done}

\* the run ended as a normal run: no error, a report and an evaluation
CompletedNormally ==
    /\ proc.err = "nil"
    /\ proc.report # NoReport
    /\ evaluation # NoEvaluation

(* C27: a run whose context is cancelled during Process while an overlay   *)
(* that was built is still to be evaluated does not end as a normal run:   *)
(* Process returns an error and there is no evaluation and no report, so   *)
(* no overlay left at the cancellation is evaluated or counted.            *)
C27_CancelledRunStops ==
    (CancelledOnTheWay /\ LeftAtCancellation # {}) => ~CompletedNormally

\* a context cancelled before the first build ends the run with the error
\* of the first kustomize command, with nothing built or reported
C27_CancelledBuildAborts ==
    /\ CancelledOnTheWay
    /\ proc.cancel.at = "build"
    /\ proc.err = "kustomize build failed"
    /\ build = NoBuild /\ proc.report = NoReport

\* a context cancelled after overlay a was evaluated: the run still ends
\* without an error and reports overlay b with both policies errored
C27_CancelledRunReports ==
    /\ CancelledOnTheWay
    /\ proc.cancel = [at |-> "evaluate", done |-> {<<"a">>}]
    /\ LeftAtCancellation = {<<"b">>}
    /\ CompletedNormally
    /\ evaluation.EnvironmentSummary[<<"b">>].PolicyCounts.TotalErrored = 2


(***************************************************************************)
(* Claims about the counts of an evaluation, checked under SpecMatrix.     *)
(***************************************************************************)
\* the success, failed and errored counts of the bucket of a level
BucketCounts(env, level) ==
    LET c == Counts(env)
    IN  CASE level = POLICY_LEVEL_BLOCK ->
                <<c.BlockingSuccessCount, c.BlockingFailedCount,
                  c.BlockingErroredCount>>
          [] level = POLICY_LEVEL_WARNING ->
                <<c.WarningSuccessCount, c.WarningFailedCount,
                  c.WarningErroredCount>>
          [] level = POLICY_LEVEL_RECOMMEND ->
                <<c.RecommendSuccessCount, c.RecommendFailedCount,
                  c.RecommendErroredCount>>
          [] level = POLICY_LEVEL_OVERRIDE ->
                <<c.OverriddenSuccessCount, c.OverriddenFailedCount,
                  c.OverriddenErroredCount>>
          [] level = POLICY_LEVEL_NOT_IN_EFFECT ->
                <<c.NotInEffectSuccessCount, c.NotInEffectFailedCount,
                  c.NotInEffectErroredCount>>

SecondLoad == pc = "loaded" /\ pc' \in {"reloaded", "reloadFailed"}

\* a policy of the loaded configuration declares an override phrase
DeclaresPhrase ==
    \E id \in DOMAIN e.Policies :
        e.Policies[id].Enforcement.Override.Comment # <<>>

(* C29: a second call of LoadAndValidate on an evaluator that loaded a      *)
(* valid configuration returns no error and leaves the table of policy     *)
(* paths and the table of override phrases as the first call left them.    *)
C29_LoadIdempotent ==
    [][SecondLoad =>
          /\ loadErr' = NoError
          /\ e'.fullPathToPolicy = e.fullPathToPolicy
          /\ e'.overrideCmdToPolicyId = e.overrideCmdToPolicyId]_vars

\* a second call on a configuration without override phrases succeeds and a
\* second call on a configuration with one is refused; either way the
\* tables stay as they were
C29_PhraseDecides ==
    [][SecondLoad =>
          /\ loadErr' = NoError <=> ~DeclaresPhrase
          /\ DeclaresPhrase =>
                loadErr'.kind = "this override command already exists"
          /\ e'.fullPathToPolicy = e.fullPathToPolicy
          /\ e'.overrideCmdToPolicyId = e.overrideCmdToPolicyId]_vars

\* the second call on a configuration with an override phrase was refused
C29_SecondLoadRefused ==
    /\ pc = "reloadFailed"
    /\ DeclaresPhrase
    /\ loadErr.kind = "this override command already exists"


(***************************************************************************)
(* Claims about the order of the substitutions, checked under SpecPath.    *)
(***************************************************************************)
\* the assignments of values that GenerateAllPaths hands to InterpolatePath
Assignments ==
    IF Validate(pb) # "nil" THEN {}
    ELSE Range(cartesianProduct(pb.Variables, ParseTemplate(pb.Template)))

(* C30: for the template of the builder and every assignment of values     *)
(* that GenerateAllPaths interpolates, a value that holds a placeholder     *)
(* included, InterpolatePath returns the same path, or the same error, in  *)
(* whichever order it takes the variables of the assignment.               *)
C30_OrderIndependent ==
    paths.called =>
        \A values \in Assignments :
            \A o1, o2 \in Orders(DOMAIN values) :
                InterpolatePath(pb.Template, values, o1) =
                   InterpolatePath(pb.Template, values, o2)

\* the template [A]/[B] with A bound to the text [B] and B to b: this call
\* of GenerateAllPaths returned the path b/b
C30_ResolvedThisTime ==
    /\ pb = [Template |-> <<"[", "A", "]", "/", "[", "B", "]">>,
             Variables |-> (<<"A">> :> << <<"[", "B", "]">> >>)
                              @@ (<<"B">> :> << <<"b">> >>)]
    /\ paths.called /\ paths.err = "nil"
    /\ paths.combos[1].Path = <<"b", "/", "b">>

\* the same builder: this call of GenerateAllPaths returned the error
C30_UnresolvedThisTime ==
    /\ pb = [Template |-> <<"[", "A", "]", "/", "[", "B", "]">>,
             Variables |-> (<<"A">> :> << <<"[", "B", "]">> >>)
                              @@ (<<"B">> :> << <<"b">> >>)]
    /\ paths.called /\ paths.err = "unresolved variables in path"

====
